---------------------------- MODULE Spec2Model ----------------------------
(***************************************************************************)
(* Verification model of the intentkit credit ledger, its audits and       *)
(* maintenance scripts, and the periodic-job scheduler.                    *)
(*                                                                         *)
(* Amounts are NUMERIC(.,4) decimals; the model holds them as integers in  *)
(* units of 0.0001, so 4.0000 is 40000 and the 0.001 tolerance is 10.      *)
(***************************************************************************)
EXTENDS Integers, Sequences, FiniteSets, TLC

VARIABLES
  rec,        \* fee pipeline: the CreditEventTable row being decomposed
  fstage,     \* fee pipeline: "input" | "detailed" | "committed"
  accounts,   \* credit_accounts: account id -> committed balances
  events,     \* credit_events: committed rows, in commit order
  txs,        \* credit_transactions: committed rows
  req,        \* requests charging the payer: position, tool calls, session
  nFund,      \* number of top-up events written so far
  debitLog,   \* history: per pay event, its request and the balances drawn from
  lastCheck,  \* the results the latest audit returned
  eventAge,   \* audits: per event, the days since its created_at
  seed,       \* audits: the row an operator corrupted in the tables, if any
  mig,        \* transaction-amount migration: stage and session rows
  refund,     \* refund submissions: position of each
  clock,      \* scheduler: the current minute
  jobstore,   \* scheduler: the shared job store (next_run_time of the job)
  replica,    \* scheduler: position of each scheduler process
  runs,       \* scheduler: executions of the job, per tick
  mem,        \* pre-model hook: configuration, input messages and outcome
  chats,      \* chat API: the chats and their messages
  resp,       \* chat API: the call being served and its response
  sse,        \* OpenAI-compatible streaming: the events sent so far
  hb,         \* heartbeats: the processes, the clock and the volatile keys
  bal,        \* balance audit during operation: timed tables and the audit run
  rebuild,    \* rebuild-from-transactions: tables, the script and its report
  autocfg,    \* agent generator: the autonomous tasks requested and accepted
  fixer,      \* event consistency fixer: the event table and the run's counts
  pager       \* a client paging through a thread: cursor and pages received

feeVars == <<rec, fstage>>
tableVars == <<accounts, events, txs>>
reqVars == <<req, nFund, debitLog>>
auditVars == <<lastCheck, eventAge, seed>>
migVars == <<mig>>
refundVars == <<refund>>
schedVars == <<clock, jobstore, replica, runs>>
frontVars == <<mem, chats, resp, sse, hb>>
backVars == <<bal, rebuild, autocfg, fixer, pager>>
vars ==
  <<rec, fstage, accounts, events, txs, req, nFund, debitLog, lastCheck,
    eventAge, seed, mig, refund, clock, jobstore, replica, runs,
    mem, chats, resp, sse, hb, bal, rebuild, autocfg, fixer, pager>>

\* Each specification below runs one subsystem; the variables of the others
\* rest at these values.
FeeIdle == rec = << >> /\ fstage = "off"
TablesIdle == accounts = << >> /\ events = << >> /\ txs = {}
ReqIdle == req = << >> /\ nFund = 0 /\ debitLog = << >>
NoCheck == [check |-> "none", results |-> {}]
NoSeed == [kind |-> "none"]
AuditIdle == lastCheck = NoCheck /\ eventAge = << >> /\ seed = NoSeed
MigIdle == mig = << >>
RefundIdle == refund = << >>
SchedIdle == clock = 0 /\ jobstore = << >> /\ replica = << >> /\ runs = << >>
MemIdle == mem = << >>
ApiIdle == chats = << >> /\ resp = << >>
SseIdle == sse = << >>
HbIdle == hb = << >>
FrontIdle == MemIdle /\ ApiIdle /\ SseIdle /\ HbIdle
BackIdle ==
  /\ bal = << >> /\ rebuild = << >> /\ autocfg = << >> /\ fixer = << >>
  /\ pager = << >>

-----------------------------------------------------------------------------
(* Decimal arithmetic *)

Abs(x) == IF x < 0 THEN -x ELSE x

\* Mutant of QuantizeDiv: ROUND_DOWN instead of ROUND_HALF_UP.
QuantizeDivTruncate(num, den) ==
  IF num >= 0 THEN num \div den ELSE -((-num) \div den)

\* (num / den).quantize(FOURPLACES, rounding=ROUND_HALF_UP) for den > 0, in
\* units of 0.0001: ties go away from zero.  The Decimal context keeps 28
\* significant digits, far more than a quotient of two NUMERIC(.,4) columns
\* needs to stay on the right side of a half unit, so the quotient is taken
\* exactly here.
QuantizeDiv(num, den) ==
  IF num >= 0 THEN (2 * num + den) \div (2 * den)
              ELSE -((2 * (-num) + den) \div (2 * den))

\* x.quantize(FOURPLACES, rounding=ROUND_HALF_UP) of a sum or difference of
\* 4-place values.
Quantize(x) == QuantizeDiv(x, 1)

-----------------------------------------------------------------------------
(* Fee decomposition: scripts/fix_credit_event_consistency.py and          *)
(* scripts/migrate_base_amounts.py ("the same logic as expense_skill").    *)

\* One fee bucket split over the credit classes: <<free, reward, permanent>>.
FeeByCreditType(fee_amount, total_amount, free_amount, reward_amount) ==
  IF fee_amount > 0 /\ total_amount > 0
  THEN LET f == IF free_amount > 0
                THEN QuantizeDiv(free_amount * fee_amount, total_amount)
                ELSE 0
           r == IF reward_amount > 0
                THEN QuantizeDiv(reward_amount * fee_amount, total_amount)
                ELSE 0
       IN  <<f, r, Quantize(fee_amount - f - r)>>
  ELSE <<0, 0, 0>>

\* calculate_detailed_amounts: the 12 detailed fields of a record.
calculate_detailed_amounts(record) ==
  LET plat == FeeByCreditType(record.fee_platform_amount, record.total_amount,
                              record.free_amount, record.reward_amount)
      agent == FeeByCreditType(record.fee_agent_amount, record.total_amount,
                               record.free_amount, record.reward_amount)
      dev == FeeByCreditType(record.fee_dev_amount, record.total_amount,
                             record.free_amount, record.reward_amount)
  IN  [record EXCEPT
         !.fee_platform_free_amount = plat[1],
         !.fee_platform_reward_amount = plat[2],
         !.fee_platform_permanent_amount = plat[3],
         !.fee_dev_free_amount = dev[1],
         !.fee_dev_reward_amount = dev[2],
         !.fee_dev_permanent_amount = dev[3],
         !.fee_agent_free_amount = agent[1],
         !.fee_agent_reward_amount = agent[2],
         !.fee_agent_permanent_amount = agent[3]]

\* Mutant of calculate_base_amounts: the dev fee is not subtracted.
calculate_base_amounts_no_dev(event) ==
  [event EXCEPT
     !.base_free_amount = Quantize(event.free_amount
          - event.fee_platform_free_amount - event.fee_agent_free_amount),
     !.base_reward_amount = Quantize(event.reward_amount
          - event.fee_platform_reward_amount - event.fee_agent_reward_amount),
     !.base_permanent_amount = Quantize(event.permanent_amount
          - event.fee_platform_permanent_amount
          - event.fee_agent_permanent_amount)]

\* calculate_base_amounts: each class's base is the class amount less the
\* platform, agent and dev fee of that class.
calculate_base_amounts(event) ==
  [event EXCEPT
     !.base_free_amount = Quantize(event.free_amount
          - event.fee_platform_free_amount - event.fee_agent_free_amount
          - event.fee_dev_free_amount),
     !.base_reward_amount = Quantize(event.reward_amount
          - event.fee_platform_reward_amount - event.fee_agent_reward_amount
          - event.fee_dev_reward_amount),
     !.base_permanent_amount = Quantize(event.permanent_amount
          - event.fee_platform_permanent_amount
          - event.fee_agent_permanent_amount
          - event.fee_dev_permanent_amount)]

\* A CreditEventTable row with gross draws (gf, gr, gp) and fee amounts, its
\* detailed fields not yet filled in.  base_amount = G - Fplat - Fdev - Fagent.
EventRow(gf, gr, gp, fplat, fdev, fagent) ==
  [total_amount |-> gf + gr + gp,
   free_amount |-> gf, reward_amount |-> gr, permanent_amount |-> gp,
   fee_platform_amount |-> fplat, fee_dev_amount |-> fdev,
   fee_agent_amount |-> fagent,
   base_amount |-> gf + gr + gp - fplat - fdev - fagent,
   fee_platform_free_amount |-> 0, fee_platform_reward_amount |-> 0,
   fee_platform_permanent_amount |-> 0,
   fee_dev_free_amount |-> 0, fee_dev_reward_amount |-> 0,
   fee_dev_permanent_amount |-> 0,
   fee_agent_free_amount |-> 0, fee_agent_reward_amount |-> 0,
   fee_agent_permanent_amount |-> 0,
   base_free_amount |-> 0, base_reward_amount |-> 0,
   base_permanent_amount |-> 0]

\* The full decomposition of an event as the debit path writes it.
DecomposedEvent(gf, gr, gp, fplat, fdev, fagent) ==
  calculate_base_amounts(
    calculate_detailed_amounts(EventRow(gf, gr, gp, fplat, fdev, fagent)))

-----------------------------------------------------------------------------
(* Fee pipeline specification: the decomposition applied to drawn inputs.  *)

MaxDraw == 3
MaxFee == 2

\* Class draws and fee amounts tried: every small amount, where rounding
\* decides, and the amounts of the 4.0000 debit with draws (1, 2, 1).
DrawAmounts == (0..MaxDraw) \cup {10000, 20000}
FeeAmounts == (0..MaxFee) \cup {2000, 4000}

FeeInit ==
  /\ TablesIdle /\ ReqIdle /\ AuditIdle /\ MigIdle /\ RefundIdle /\ SchedIdle
  /\ FrontIdle /\ BackIdle
  /\ fstage = "input"
  /\ \E gf \in DrawAmounts, gr \in DrawAmounts, gp \in DrawAmounts,
        fplat \in FeeAmounts, fdev \in FeeAmounts, fagent \in FeeAmounts :
       /\ fplat + fdev + fagent <= gf + gr + gp
       /\ rec = EventRow(gf, gr, gp, fplat, fdev, fagent)

FeeDetail ==
  /\ fstage = "input"
  /\ rec' = calculate_detailed_amounts(rec)
  /\ fstage' = "detailed"
  /\ UNCHANGED <<tableVars, reqVars, auditVars, migVars, refundVars, schedVars,
               frontVars, backVars>>

FeeBase ==
  /\ fstage = "detailed"
  /\ rec' = calculate_base_amounts(rec)
  /\ fstage' = "committed"
  /\ UNCHANGED <<tableVars, reqVars, auditVars, migVars, refundVars, schedVars,
               frontVars, backVars>>

FeeNext == FeeDetail \/ FeeBase

FeeSpec == FeeInit /\ [][FeeNext]_vars

-----------------------------------------------------------------------------
(* Claims on the fee decomposition (checked under FeeSpec). *)

\* n is q = num/den rounded half-up to a whole unit (num >= 0, den > 0):
\* n - 1/2 <= q < n + 1/2.
IsRoundHalfUp(n, num, den) ==
  /\ 2 * den * n - den <= 2 * num
  /\ 2 * num < 2 * den * n + den

\* The class split <<free, reward, permanent>> of fee bucket F is the one
\* the decomposition algorithm prescribes for row r.
BucketSplitOK(r, F, free, reward, permanent) ==
  /\ IsRoundHalfUp(free, r.free_amount * F, r.total_amount)
  /\ IsRoundHalfUp(reward, r.reward_amount * F, r.total_amount)
  /\ permanent = F - free - reward
  /\ free + reward + permanent = F

\* C1: every committed CreditEvent satisfies base_amount + fee_platform_amount
\* + fee_dev_amount + fee_agent_amount = total_amount, and the same equation
\* holds for the free, the reward and the permanent components.
C1_EventDecomposition ==
  fstage = "committed" =>
    /\ rec.base_amount + rec.fee_platform_amount + rec.fee_dev_amount
         + rec.fee_agent_amount = rec.total_amount
    /\ rec.base_free_amount + rec.fee_platform_free_amount
         + rec.fee_dev_free_amount + rec.fee_agent_free_amount
         = rec.free_amount
    /\ rec.base_reward_amount + rec.fee_platform_reward_amount
         + rec.fee_dev_reward_amount + rec.fee_agent_reward_amount
         = rec.reward_amount
    /\ rec.base_permanent_amount + rec.fee_platform_permanent_amount
         + rec.fee_dev_permanent_amount + rec.fee_agent_permanent_amount
         = rec.permanent_amount

\* A committed event drawn from all three classes that pays all three fees.
C1_Witness ==
  /\ fstage = "committed"
  /\ rec.free_amount > 0 /\ rec.reward_amount > 0 /\ rec.permanent_amount > 0
  /\ rec.fee_platform_amount > 0 /\ rec.fee_dev_amount > 0
  /\ rec.fee_agent_amount > 0
  /\ rec.fee_dev_free_amount > 0
  /\ rec.base_amount > 0

\* C2: for each fee bucket F of an event with gross G > 0 drawn as
\* (Gf, Gr, Gp), fee_free is Gf*F/G rounded half-up to 4 places, fee_reward
\* is Gr*F/G rounded half-up, fee_permanent is the remainder, and the three
\* parts sum to F; G = 4, draws (1, 2, 1), F = 0.4 splits as 0.1, 0.2, 0.1.
C2_FeeClassSplit ==
  (fstage # "input" /\ rec.total_amount > 0) =>
    /\ BucketSplitOK(rec, rec.fee_platform_amount,
         rec.fee_platform_free_amount, rec.fee_platform_reward_amount,
         rec.fee_platform_permanent_amount)
    /\ BucketSplitOK(rec, rec.fee_dev_amount,
         rec.fee_dev_free_amount, rec.fee_dev_reward_amount,
         rec.fee_dev_permanent_amount)
    /\ BucketSplitOK(rec, rec.fee_agent_amount,
         rec.fee_agent_free_amount, rec.fee_agent_reward_amount,
         rec.fee_agent_permanent_amount)
    /\ ( /\ rec.free_amount = 10000 /\ rec.reward_amount = 20000
         /\ rec.permanent_amount = 10000 /\ rec.fee_platform_amount = 4000
         => /\ rec.fee_platform_free_amount = 1000
            /\ rec.fee_platform_reward_amount = 2000
            /\ rec.fee_platform_permanent_amount = 1000 )

\* The 4.0000 debit drawn (1, 2, 1) with platform fee 0.4 and dev fee 0.2.
C2_Witness ==
  /\ fstage = "detailed"
  /\ rec.free_amount = 10000 /\ rec.reward_amount = 20000
  /\ rec.permanent_amount = 10000
  /\ rec.fee_platform_amount = 4000 /\ rec.fee_dev_amount = 2000
  /\ rec.fee_platform_free_amount = 1000
  /\ rec.fee_dev_reward_amount = 1000

-----------------------------------------------------------------------------
(* The credit ledger: accounts, events, transactions (section 4.3), the    *)
(* post-model payment gate (app/core/node.py) and the audits               *)
(* (app/admin/account_checking.py).                                        *)

RECURSIVE SetSum(_, _)
\* Sum of f[x] over the finite set S.
SetSum(f, S) ==
  IF S = {} THEN 0
  ELSE LET x == CHOOSE y \in S : TRUE IN f[x] + SetSum(f, S \ {x})

Min(a, b) == IF a <= b THEN a ELSE b

PAYER == "user1"
AccountIds ==
  {PAYER, "platform_source", "platform_base", "platform_fee", "dev", "agent"}

ZeroAccount == [free_credits |-> 0, reward_credits |-> 0, credits |-> 0]

\* CreditAccount.balance
Balance(acc) == acc.free_credits + acc.reward_credits + acc.credits

\* Mutant of has_sufficient_credits: every amount is covered.
has_sufficient_credits_always(acc, amount) == TRUE

\* CreditAccount.has_sufficient_credits(amount)
has_sufficient_credits(acc, amount) == amount <= Balance(acc)

\* Skill registry: the registered skills and the gross cost of each.
Skills == {"s1", "s2"}
ToolNames == Skills \cup {"unregistered"}
SkillPrice == [s1 |-> 40000, s2 |-> 50]

\* The agent's fee shares, in percent of the gross amount.
PlatformPct == 10
DevPct == 5
AgentPct == 0

\* A fee share of the gross amount G, quantized.
FeeAmount(G, pct) == QuantizeDiv(G * pct, 100)

\* skill_cost(name, payer, agent).total_amount
skill_cost(name) == SkillPrice[name]

\* Mutant of DrawFromBalances: reward credits are consumed before free ones.
DrawRewardFirst(acc, G) ==
  LET gr == Min(G, acc.reward_credits)
      gf == Min(G - gr, acc.free_credits)
  IN  <<gf, gr, G - gf - gr>>

\* The class split (Gf, Gr, Gp) of a gross amount G over the payer's
\* balances: free first, then reward, then permanent.
DrawFromBalances(acc, G) ==
  IF G <= acc.free_credits THEN <<G, 0, 0>>
  ELSE IF G <= acc.free_credits + acc.reward_credits
       THEN <<acc.free_credits, G - acc.free_credits, 0>>
       ELSE <<acc.free_credits, acc.reward_credits,
              G - acc.free_credits - acc.reward_credits>>

\* One credit_transactions row.
Tx(event_id, account_id, tx_type, credit_debit, change, f, r, p) ==
  [event_id |-> event_id, account_id |-> account_id, tx_type |-> tx_type,
   credit_debit |-> credit_debit, change_amount |-> change,
   free_amount |-> f, reward_amount |-> r, permanent_amount |-> p]

\* The transactions of a pay event e: one debit of the payer, one credit of
\* the base amount, one credit per fee bucket that is not zero.
PayTxs(id, e) ==
  {Tx(id, PAYER, "pay", "debit", e.total_amount,
      e.free_amount, e.reward_amount, e.permanent_amount),
   Tx(id, "platform_base", "receive_base_skill", "credit", e.base_amount,
      e.base_free_amount, e.base_reward_amount, e.base_permanent_amount)}
  \cup (IF e.fee_platform_amount > 0
        THEN {Tx(id, "platform_fee", "receive_fee_platform", "credit",
                 e.fee_platform_amount, e.fee_platform_free_amount,
                 e.fee_platform_reward_amount,
                 e.fee_platform_permanent_amount)}
        ELSE {})
  \cup (IF e.fee_dev_amount > 0
        THEN {Tx(id, "dev", "receive_fee_dev", "credit",
                 e.fee_dev_amount, e.fee_dev_free_amount,
                 e.fee_dev_reward_amount, e.fee_dev_permanent_amount)}
        ELSE {})
  \cup (IF e.fee_agent_amount > 0
        THEN {Tx(id, "agent", "receive_fee_agent", "credit",
                 e.fee_agent_amount, e.fee_agent_free_amount,
                 e.fee_agent_reward_amount, e.fee_agent_permanent_amount)}
        ELSE {})

\* The transactions of a top-up event (recharge, refill, reward): a credit
\* of the user and the matching debit of the platform's source account.
TopUpTxs(id, kind, e) ==
  {Tx(id, PAYER, kind, "credit", e.total_amount,
      e.free_amount, e.reward_amount, e.permanent_amount),
   Tx(id, "platform_source", kind, "debit", e.total_amount,
      e.free_amount, e.reward_amount, e.permanent_amount)}

\* A credit_events row: the decomposition with its identity.
EventOf(id, kind, e) == [id |-> id, event_type |-> kind, amounts |-> e]

Sign(t) == IF t.credit_debit = "credit" THEN 1 ELSE -1

\* The balances after the transactions T (at most one per account) apply.
ApplyTxs(accts, T) ==
  [a \in AccountIds |->
     IF \E t \in T : t.account_id = a
     THEN LET t == CHOOSE u \in T : u.account_id = a
          IN  [free_credits |-> accts[a].free_credits + Sign(t) * t.free_amount,
               reward_credits |->
                 accts[a].reward_credits + Sign(t) * t.reward_amount,
               credits |-> accts[a].credits + Sign(t) * t.permanent_amount]
     ELSE accts[a]]

\* Mutant of CommittedTxs: the event becomes visible before its transactions.
CommittedTxsLater(session) == {}

\* The transaction rows a commit of the session makes visible.
CommittedTxs(session) == session.txs

-----------------------------------------------------------------------------
(* Requests: model turn, payment gate, settlement. *)

Requests == {"r1", "r2"}
MaxFundings == 1

\* The tool_calls lists a model turn may carry: registered skills in either
\* order, or a tool that is not a registered skill.
CallLists ==
  {<<"s1">>, <<"s1", "s2">>, <<"s2", "s1">>, <<"unregistered">>}

IdleRequest ==
  [pc |-> "idle", calls |-> << >>, k |-> 0, error |-> "none",
   need |-> -1, have |-> -1, session |-> << >>, messages |-> << >>]

\* The messages of the request when the model has answered: the user's
\* message and the assistant message that carries the tool calls.
TurnMessages(calls) ==
  <<[type |-> "human", id |-> 1],
    [type |-> "ai", id |-> 2, tool_calls |-> calls]>>

\* Mutant of InsufficientCreditsUpdate: the tool-calling message stays.
InsufficientCreditsUpdateKeep(messages, total_paid, balance) ==
  Append(messages,
         [type |-> "ai",
          text |-> "Insufficient credits. Please top up your account.",
          need |-> total_paid, have |-> balance])

\* The messages PostModelNode returns when the credits do not suffice:
\* messages[-1] = RemoveMessage(id=msg.id), then an AIMessage whose content
\* names the amount needed and the balance.
InsufficientCreditsUpdate(messages, total_paid, balance) ==
  LET msg == messages[Len(messages)]
  IN  Append([messages EXCEPT ![Len(messages)] =
                [type |-> "remove", id |-> msg.id]],
             [type |-> "ai",
              text |-> "Insufficient credits. Please top up your account.",
              need |-> total_paid, have |-> balance])

\* The payer's row is locked while a debit holds it (SELECT ... FOR UPDATE
\* until commit).
RowLocked == \E r \in Requests : req[r].pc = "commit"

\* The first index >= k of a tool call that names a registered skill, or
\* Len(calls) + 1.
NextPriced(calls, k) ==
  LET later == {i \in k..Len(calls) : calls[i] \in Skills}
  IN  IF later = {} THEN Len(calls) + 1
      ELSE CHOOSE i \in later : \A j \in later : i <= j

\* total_paid after the loop over msg.tool_calls: each registered skill
\* assigns it, so it ends as the cost of the last registered one; it stays
\* unbound (-1 here) when no call names a registered skill.
GateTotalPaid(calls) ==
  LET priced == {i \in 1..Len(calls) : calls[i] \in Skills}
  IN  IF priced = {} THEN -1
      ELSE skill_cost(calls[CHOOSE i \in priced : \A j \in priced : j <= i])

\* The committed tables as one value.
Ledger == [accounts |-> accounts, events |-> events, txs |-> txs]

\* The tables after the session of an event commits: the event row, the
\* transaction rows and the balance updates.
CommitEvent(L, kind, e, T) ==
  LET session == [txs |-> T]
  IN  [events |-> Append(L.events, EventOf(Len(L.events) + 1, kind, e)),
       txs |-> L.txs \cup CommittedTxs(session),
       accounts |-> ApplyTxs(L.accounts, session.txs)]

\* The tables after a top-up of the payer is written.
TopUpLedger(L, kind, gf, gr, gp) ==
  LET e == DecomposedEvent(gf, gr, gp, 0, 0, 0)
  IN  CommitEvent(L, kind, e, TopUpTxs(Len(L.events) + 1, kind, e))

\* The amounts of a pay event of gross G drawn from the balances acc.
PayAmounts(acc, G) ==
  LET d == DrawFromBalances(acc, G)
  IN  DecomposedEvent(d[1], d[2], d[3], FeeAmount(G, PlatformPct),
                      FeeAmount(G, DevPct), FeeAmount(G, AgentPct))

\* The tables after a pay event with the amounts e is written.
PayLedger(L, e) == CommitEvent(L, "pay", e, PayTxs(Len(L.events) + 1, e))

FreeCreditCeiling == 10000
RewardAmount == 20000
RechargeAmount == 100000

EmptyLedger ==
  [accounts |-> [a \in AccountIds |-> ZeroAccount],
   events |-> << >>, txs |-> {}]

\* Ledgers the requests start on: empty; refilled to the free ceiling;
\* recharged with 5.0000; refilled, rewarded and recharged to the balances
\* (1.0000, 2.0000, 10.0000).
StartLedgers ==
  LET refilled == TopUpLedger(EmptyLedger, "refill", FreeCreditCeiling, 0, 0)
      rewarded == TopUpLedger(refilled, "reward", 0, RewardAmount, 0)
  IN  {EmptyLedger,
       refilled,
       TopUpLedger(EmptyLedger, "recharge", 0, 0, 50000),
       TopUpLedger(rewarded, "recharge", 0, 0, RechargeAmount)}

notLedger == <<feeVars, eventAge, seed, migVars, refundVars, schedVars,
  frontVars, backVars>>

LedgerInit ==
  /\ \E L \in StartLedgers :
       /\ accounts = L.accounts
       /\ events = L.events
       /\ txs = L.txs
  /\ req = [r \in Requests |-> IdleRequest]
  /\ nFund = 0
  /\ debitLog = << >>
  /\ AuditIdle
  /\ FeeIdle /\ MigIdle /\ RefundIdle /\ SchedIdle
  /\ FrontIdle /\ BackIdle

\* The model returns an assistant message that carries tool calls.
ModelTurn(r, calls) ==
  /\ req[r].pc = "idle"
  /\ req' = [req EXCEPT ![r] = [@ EXCEPT !.pc = "gate", !.calls = calls,
                                          !.messages = TurnMessages(calls)]]
  /\ UNCHANGED <<tableVars, nFund, debitLog, lastCheck, notLedger>>

\* PostModelNode._afunc with a payer: the account is read without a lock.
PostModelNode(r) ==
  /\ req[r].pc = "gate"
  /\ LET account == accounts[PAYER]
         total_paid == GateTotalPaid(req[r].calls)
     IN  req' = [req EXCEPT ![r] =
           IF total_paid = -1
           THEN [@ EXCEPT !.pc = "raised"]
           ELSE IF ~has_sufficient_credits(account, total_paid)
           THEN [@ EXCEPT !.pc = "done",
                          !.error = "INSUFFICIENT_CREDITS",
                          !.need = total_paid,
                          !.have = Balance(account),
                          !.messages = InsufficientCreditsUpdate(
                             req[r].messages, total_paid, Balance(account))]
           ELSE [@ EXCEPT !.k = NextPriced(req[r].calls, 1),
                          !.have = Balance(account),
                          !.pc = "settle"]]
  /\ UNCHANGED <<tableVars, nFund, debitLog, lastCheck, notLedger>>

\* expense_skill, locked region: lock the payer's row, read the balances,
\* abort when they do not cover the gross amount, else stage event and
\* transactions in the session.
DebitBegin(r) ==
  /\ req[r].pc = "settle"
  /\ ~RowLocked
  /\ LET G == skill_cost(req[r].calls[req[r].k])
         acc == accounts[PAYER]
     IN  req' = [req EXCEPT ![r] =
           IF has_sufficient_credits(acc, G)
           THEN [@ EXCEPT !.pc = "commit",
                          !.session = [amounts |-> PayAmounts(acc, G),
                                       before |-> acc]]
           ELSE [@ EXCEPT !.pc = "done", !.error = "INSUFFICIENT_CREDITS"]]
  /\ UNCHANGED <<tableVars, nFund, debitLog, lastCheck, notLedger>>

\* expense_skill, commit: the event, its transactions and the balance
\* updates become visible together and the row lock is released.
DebitCommit(r) ==
  /\ req[r].pc = "commit"
  /\ LET L == PayLedger(Ledger, req[r].session.amounts)
         k == NextPriced(req[r].calls, req[r].k + 1)
     IN  /\ events' = L.events
         /\ txs' = L.txs
         /\ accounts' = L.accounts
         /\ debitLog' = Append(debitLog,
              [event_id |-> Len(L.events), request |-> r,
               before |-> req[r].session.before,
               after |-> L.accounts[PAYER]])
         /\ req' = [req EXCEPT ![r] =
              [@ EXCEPT !.session = << >>, !.k = k,
                 !.pc = IF k > Len(req[r].calls) THEN "done" ELSE "settle"]]
  /\ UNCHANGED <<nFund, lastCheck, notLedger>>

\* A top-up of the payer, under the lock of its row.
TopUp(kind, gf, gr, gp) ==
  /\ nFund < MaxFundings
  /\ ~RowLocked
  /\ LET L == TopUpLedger(Ledger, kind, gf, gr, gp)
     IN  /\ events' = L.events
         /\ txs' = L.txs
         /\ accounts' = L.accounts
  /\ nFund' = nFund + 1
  /\ UNCHANGED <<req, debitLog, lastCheck, notLedger>>

\* recharge(account, amount, source): permanent credits.
Recharge == TopUp("recharge", 0, 0, RechargeAmount)

\* reward(account, amount, reason): reward credits.
Reward == TopUp("reward", 0, RewardAmount, 0)

\* refill_free_credits(policy): tops the free credits up to the ceiling.
Refill ==
  /\ accounts[PAYER].free_credits < FreeCreditCeiling
  /\ TopUp("refill", FreeCreditCeiling - accounts[PAYER].free_credits, 0, 0)

-----------------------------------------------------------------------------
(* Audits over the committed tables (app/admin/account_checking.py). *)

\* check_orphaned_transactions: transactions whose event_id joins no event.
check_orphaned_transactions(evts, T) ==
  LET orphaned_txs ==
        {t \in T : ~\E i \in 1..Len(evts) : evts[i].id = t.event_id}
  IN  {[check_type |-> "orphaned_transactions",
        status |-> (Cardinality(orphaned_txs) = 0),
        orphaned_count |-> Cardinality(orphaned_txs)]}

\* check_orphaned_events: events that no transaction joins.
check_orphaned_events(evts, T) ==
  LET orphaned_events ==
        {i \in 1..Len(evts) : ~\E t \in T : t.event_id = evts[i].id}
  IN  IF orphaned_events = {}
      THEN {[check_type |-> "orphaned_events", status |-> TRUE,
             orphaned_count |-> 0]}
      ELSE {[check_type |-> "orphaned_events", status |-> FALSE,
             orphaned_count |-> Cardinality(orphaned_events)]}

\* The orphan audits read the committed tables while requests write them.
CheckOrphanedTransactions ==
  /\ lastCheck' = [check |-> "orphaned_transactions",
                   results |-> check_orphaned_transactions(events, txs)]
  /\ UNCHANGED <<tableVars, reqVars, notLedger>>

CheckOrphanedEvents ==
  /\ lastCheck' = [check |-> "orphaned_events",
                   results |-> check_orphaned_events(events, txs)]
  /\ UNCHANGED <<tableVars, reqVars, notLedger>>

LedgerNext ==
  \/ \E r \in Requests, calls \in CallLists : ModelTurn(r, calls)
  \/ \E r \in Requests : PostModelNode(r)
  \/ \E r \in Requests : DebitBegin(r)
  \/ \E r \in Requests : DebitCommit(r)
  \/ Recharge
  \/ Reward
  \/ Refill
  \/ CheckOrphanedTransactions
  \/ CheckOrphanedEvents

LedgerSpec == LedgerInit /\ [][LedgerNext]_vars

-----------------------------------------------------------------------------
(* Claims on the ledger under concurrent requests (checked under LedgerSpec). *)

C5_DrawOrder ==
  \A i \in 1..Len(debitLog) :
    LET e == events[debitLog[i].event_id].amounts
        b == debitLog[i].before
        a == debitLog[i].after
        G == e.total_amount
    IN  /\ e.free_amount = Min(G, b.free_credits)
        /\ e.reward_amount = Min(G - e.free_amount, b.reward_credits)
        /\ e.permanent_amount = G - e.free_amount - e.reward_amount
        /\ e.permanent_amount <= b.credits
        /\ a.free_credits = b.free_credits - e.free_amount
        /\ a.reward_credits = b.reward_credits - e.reward_amount
        /\ a.credits = b.credits - e.permanent_amount
        /\ (b = [free_credits |-> 10000, reward_credits |-> 20000,
                 credits |-> 100000] /\ G = 40000)
           => /\ e.free_amount = 10000
              /\ e.reward_amount = 20000
              /\ e.permanent_amount = 10000
              /\ a = [free_credits |-> 0, reward_credits |-> 0,
                      credits |-> 90000]

\* A debit of 4.0000 from the balances (1.0000, 2.0000, 10.0000) committed.
C5_Witness ==
  \E i \in 1..Len(debitLog) :
    /\ debitLog[i].before = [free_credits |-> 10000, reward_credits |-> 20000,
                             credits |-> 100000]
    /\ events[debitLog[i].event_id].amounts.total_amount = 40000

\* C8: a reader that runs concurrently with ledger writes never sees a
\* transaction whose event_id does not resolve to an event, nor an event
\* without transactions, and the two orphan audits report status true.
C8_NoOrphans ==
  /\ \A t \in txs : \E i \in 1..Len(events) : events[i].id = t.event_id
  /\ \A i \in 1..Len(events) : \E t \in txs : t.event_id = events[i].id
  /\ \A res \in lastCheck.results : res.status = TRUE

\* An orphan audit returned while one debit had committed and another held
\* the row lock with its event and transactions staged.
C8_Witness ==
  /\ debitLog # << >>
  /\ \E r \in Requests : req[r].pc = "commit"
  /\ lastCheck.check = "orphaned_events"
  /\ lastCheck.results # {}

-----------------------------------------------------------------------------
(* The audits applied to ledger tables, intact or with one row corrupted.  *)

\* three_days_ago = now - timedelta(days=3)
AuditWindowDays == 3
\* abs(grand_total) < Decimal("0.001"), in units of 0.0001
NearZero == 10
MaxAgeDays == 4

\* Sum of change_amount over the transactions of an event in one direction.
DirectionSum(T, event_id, direction) ==
  LET rows == {t \in T : t.event_id = event_id /\ t.credit_debit = direction}
  IN  SetSum([t \in rows |-> t.change_amount], rows)

\* Mutant of check_total_credit_balance: the near-zero band is closed.
check_total_credit_balance_closed_band(accts) ==
  LET grand_total ==
        SetSum([a \in AccountIds |-> Balance(accts[a])], AccountIds)
  IN  {[check_type |-> "total_credit_balance",
        status |-> (grand_total = 0 \/ Abs(grand_total) <= NearZero),
        grand_total |-> grand_total]}

\* check_total_credit_balance: balanced when the grand total is zero, and
\* also when it is not zero but within 0.001 of it.
check_total_credit_balance(accts) ==
  LET grand_total ==
        SetSum([a \in AccountIds |-> Balance(accts[a])], AccountIds)
      is_balanced == grand_total = 0
  IN  {[check_type |-> "total_credit_balance",
        status |-> IF ~is_balanced /\ Abs(grand_total) < NearZero
                   THEN TRUE ELSE is_balanced,
        grand_total |-> grand_total]}

\* Mutant of check_transaction_balance: every event is audited.
check_transaction_balance_all_events(evts, ages, T) ==
  {[check_type |-> "transaction_balance",
    status |-> (DirectionSum(T, evts[i].id, "credit")
                = DirectionSum(T, evts[i].id, "debit")),
    event_id |-> evts[i].id,
    credit_sum |-> DirectionSum(T, evts[i].id, "credit"),
    debit_sum |-> DirectionSum(T, evts[i].id, "debit")] :
   i \in 1..Len(evts)}

\* check_transaction_balance: one result per event created within the last
\* three days, balanced when its credit and debit sums are equal.
check_transaction_balance(evts, ages, T) ==
  LET recent == {i \in 1..Len(evts) : ages[i] <= AuditWindowDays}
  IN  {[check_type |-> "transaction_balance",
        status |-> (DirectionSum(T, evts[i].id, "credit")
                    = DirectionSum(T, evts[i].id, "debit")),
        event_id |-> evts[i].id,
        credit_sum |-> DirectionSum(T, evts[i].id, "credit"),
        debit_sum |-> DirectionSum(T, evts[i].id, "debit")] :
       i \in recent}

\* Ledgers under audit: the start ledgers and each of them after one skill
\* call that its balances cover was paid.
AuditLedgers ==
  StartLedgers \cup
  {PayLedger(L, PayAmounts(L.accounts[PAYER], skill_cost(s))) :
     L \in {K \in StartLedgers : K.events # << >>},
     s \in {"s2"}}
  \cup
  {PayLedger(L, PayAmounts(L.accounts[PAYER], skill_cost("s1"))) :
     L \in {K \in StartLedgers :
              has_sufficient_credits(K.accounts[PAYER], skill_cost("s1"))}}

\* Ages in days of the events of a table: events are kept in commit order,
\* so no event is older than one before it.
EventAges(n) ==
  {a \in [1..n -> 0..MaxAgeDays] : \A i \in 1..n, j \in 1..n :
     i < j => a[i] >= a[j]}

\* Amounts by which a corrupted stored balance is off.
SeedDeltas == {-NearZero, 1 - NearZero, -1, 1, NearZero - 1, NearZero}

notAudit == <<feeVars, reqVars, migVars, refundVars, schedVars,
  frontVars, backVars>>

AuditInit ==
  /\ \E L \in AuditLedgers :
       /\ accounts = L.accounts
       /\ events = L.events
       /\ txs = L.txs
       /\ eventAge \in EventAges(Len(L.events))
  /\ lastCheck = NoCheck
  /\ seed = NoSeed
  /\ FeeIdle /\ ReqIdle /\ MigIdle /\ RefundIdle /\ SchedIdle
  /\ FrontIdle /\ BackIdle

\* An operator corrupts the payer's stored credits by d.
SeedAccountRow(d) ==
  /\ seed = NoSeed
  /\ accounts' = [accounts EXCEPT ![PAYER] = [@ EXCEPT !.credits = @ + d]]
  /\ seed' = [kind |-> "account", delta |-> d]
  /\ lastCheck' = NoCheck
  /\ UNCHANGED <<events, txs, eventAge, notAudit>>

\* An operator corrupts the change_amount of one transaction row.
SeedTransactionRow(t) ==
  /\ seed = NoSeed
  /\ t \in txs
  /\ txs' = (txs \ {t}) \cup {[t EXCEPT !.change_amount = @ + 1]}
  /\ seed' = [kind |-> "transaction", event_id |-> t.event_id]
  /\ lastCheck' = NoCheck
  /\ UNCHANGED <<accounts, events, eventAge, notAudit>>

CheckTotalCreditBalance ==
  /\ lastCheck' = [check |-> "total_credit_balance",
                   results |-> check_total_credit_balance(accounts)]
  /\ UNCHANGED <<tableVars, eventAge, seed, notAudit>>

CheckTransactionBalance ==
  /\ lastCheck' = [check |-> "transaction_balance",
                   results |->
                     check_transaction_balance(events, eventAge, txs)]
  /\ UNCHANGED <<tableVars, eventAge, seed, notAudit>>

AuditNext ==
  \/ \E d \in SeedDeltas : SeedAccountRow(d)
  \/ \E t \in txs : SeedTransactionRow(t)
  \/ CheckTotalCreditBalance
  \/ CheckTransactionBalance

AuditSpec == AuditInit /\ [][AuditNext]_vars

-----------------------------------------------------------------------------
(* Claims on the audits (checked under AuditSpec). *)

GrandTotal == SetSum([a \in AccountIds |-> Balance(accounts[a])], AccountIds)

SumsDiffer(event_id) ==
  DirectionSum(txs, event_id, "credit") # DirectionSum(txs, event_id, "debit")

-----------------------------------------------------------------------------
(* scripts/migrate_credit_transaction_amounts.py: the class columns of     *)
(* credit_transactions rows written before the columns existed are filled  *)
(* from the event of each row.                                             *)

\* A nullable NUMERIC column is << >> (NULL) or <<v>>.
NULL == << >>
COALESCE(x, d) == IF x = NULL THEN d ELSE x[1]

\* A credit_transactions row as SQL sees it; a legacy row has NULL class
\* columns.
SqlRow(t, legacy) ==
  [event_id |-> t.event_id, account_id |-> t.account_id,
   tx_type |-> t.tx_type, credit_debit |-> t.credit_debit,
   change_amount |-> <<t.change_amount>>,
   free_amount |-> IF legacy THEN NULL ELSE <<t.free_amount>>,
   reward_amount |-> IF legacy THEN NULL ELSE <<t.reward_amount>>,
   permanent_amount |-> IF legacy THEN NULL ELSE <<t.permanent_amount>>]

\* ROUND(free + reward + permanent, 4) != ROUND(change_amount, 4)
Inconsistent(t) ==
  Quantize(COALESCE(t.free_amount, 0) + COALESCE(t.reward_amount, 0)
           + COALESCE(t.permanent_amount, 0))
  # Quantize(COALESCE(t.change_amount, 0))

\* count_inconsistent_transactions: over the rows that join an event.
count_inconsistent_transactions(evts, T) ==
  Cardinality({t \in T : /\ \E i \in 1..Len(evts) : evts[i].id = t.event_id
                         /\ Inconsistent(t)})

UpdateGroups == 1..5

\* The tx_type values of each UPDATE statement.
GroupTypes(g) ==
  CASE g = 1 -> {"pay", "recharge", "refund", "adjustment", "refill",
                 "reward", "event_reward", "recharge_bonus"}
    [] g = 2 -> {"receive_base_llm", "receive_base_skill",
                 "receive_base_memory", "receive_base_voice",
                 "receive_base_knowledge"}
    [] g = 3 -> {"receive_fee_dev"}
    [] g = 4 -> {"receive_fee_agent"}
    [] g = 5 -> {"receive_fee_platform"}

\* Mutant of GroupColumns: the receive_base_* rows take the event's gross
\* class amounts.
GroupColumnsGross(g, ce) ==
  CASE g \in {1, 2} ->
         <<ce.free_amount, ce.reward_amount, ce.permanent_amount>>
    [] g = 3 -> <<ce.fee_dev_free_amount, ce.fee_dev_reward_amount,
                  ce.fee_dev_permanent_amount>>
    [] g = 4 -> <<ce.fee_agent_free_amount, ce.fee_agent_reward_amount,
                  ce.fee_agent_permanent_amount>>
    [] g = 5 -> <<ce.fee_platform_free_amount, ce.fee_platform_reward_amount,
                  ce.fee_platform_permanent_amount>>

\* The event columns each UPDATE statement copies into free_amount,
\* reward_amount and permanent_amount.
GroupColumns(g, ce) ==
  CASE g = 1 -> <<ce.free_amount, ce.reward_amount, ce.permanent_amount>>
    [] g = 2 -> <<ce.base_free_amount, ce.base_reward_amount,
                  ce.base_permanent_amount>>
    [] g = 3 -> <<ce.fee_dev_free_amount, ce.fee_dev_reward_amount,
                  ce.fee_dev_permanent_amount>>
    [] g = 4 -> <<ce.fee_agent_free_amount, ce.fee_agent_reward_amount,
                  ce.fee_agent_permanent_amount>>
    [] g = 5 -> <<ce.fee_platform_free_amount, ce.fee_platform_reward_amount,
                  ce.fee_platform_permanent_amount>>

\* One UPDATE ... FROM credit_events statement over the rows T.
UpdateGroup(g, evts, T) ==
  {IF /\ \E i \in 1..Len(evts) : evts[i].id = t.event_id
      /\ t.tx_type \in GroupTypes(g)
      /\ Inconsistent(t)
   THEN LET ce == evts[CHOOSE i \in 1..Len(evts) :
                         evts[i].id = t.event_id].amounts
            c == GroupColumns(g, ce)
        IN  [t EXCEPT !.free_amount = <<COALESCE(<<c[1]>>, 0)>>,
                      !.reward_amount = <<COALESCE(<<c[2]>>, 0)>>,
                      !.permanent_amount = <<COALESCE(<<c[3]>>, 0)>>]
   ELSE t : t \in T}

notMigrate == <<feeVars, reqVars, auditVars, refundVars, schedVars,
  frontVars, backVars>>

\* The tables when the script starts: a ledger whose first `legacy` events
\* had their transactions written before the class columns existed.
MigrateInit ==
  /\ \E L \in AuditLedgers, dry_run \in BOOLEAN :
     \E legacy \in 0..Len(L.events) :
       /\ accounts = L.accounts
       /\ events = L.events
       /\ txs = {SqlRow(t, t.event_id <= legacy) : t \in L.txs}
       /\ mig = [stage |-> "start", dry_run |-> dry_run, legacy |-> legacy,
                 rows |-> {}, group |-> 0, remaining |-> -1]
  /\ FeeIdle /\ ReqIdle /\ AuditIdle /\ RefundIdle /\ SchedIdle
  /\ FrontIdle /\ BackIdle

\* migrate_transaction_amounts up to the first UPDATE: nothing to migrate,
\* or a dry run that only previews, or the session starts on the rows.
MigrateBegin ==
  /\ mig.stage = "start"
  /\ mig' = IF count_inconsistent_transactions(events, txs) = 0
            THEN [mig EXCEPT !.stage = "nothing"]
            ELSE IF mig.dry_run
            THEN [mig EXCEPT !.stage = "previewed"]
            ELSE [mig EXCEPT !.stage = "update", !.rows = txs, !.group = 1]
  /\ UNCHANGED <<tableVars, notMigrate>>

\* session.execute(query) for the next of the five UPDATE statements; the
\* rows change in the session only.
MigrateUpdate ==
  /\ mig.stage = "update"
  /\ mig' = [mig EXCEPT
       !.rows = UpdateGroup(mig.group, events, mig.rows),
       !.group = mig.group + 1,
       !.stage = IF mig.group + 1 \in UpdateGroups THEN "update"
                 ELSE "commit"]
  /\ UNCHANGED <<tableVars, notMigrate>>

\* session.commit(): the rewritten rows become visible.
MigrateCommit ==
  /\ mig.stage = "commit"
  /\ txs' = mig.rows
  /\ mig' = [mig EXCEPT !.stage = "committed", !.rows = {}]
  /\ UNCHANGED <<accounts, events, notMigrate>>

\* verify_migration: counts the rows that are still inconsistent.
MigrateVerify ==
  /\ mig.stage = "committed"
  /\ mig' = [mig EXCEPT
       !.stage = "verified",
       !.remaining = count_inconsistent_transactions(events, txs)]
  /\ UNCHANGED <<tableVars, notMigrate>>

MigrateNext ==
  \/ MigrateBegin
  \/ MigrateUpdate
  \/ MigrateCommit
  \/ MigrateVerify

MigrateSpec == MigrateInit /\ [][MigrateNext]_vars

\* C3: for every CreditTransaction the ledger writes, and for every row once
\* the transaction-amount migration has committed, free_amount +
\* reward_amount + permanent_amount equals change_amount, both rounded to 4
\* decimals; the migration's verification then counts no inconsistent row.
C3_TransactionClassSum ==
  /\ \A t \in txs : t.event_id > mig.legacy => ~Inconsistent(t)
  /\ mig.stage \in {"nothing", "committed", "verified"} =>
       \A t \in txs : ~Inconsistent(t)
  /\ mig.stage = "verified" => mig.remaining = 0

\* The migration committed over legacy rows of a pay event, among them a
\* fee row.
C3_Witness ==
  /\ mig.stage = "committed"
  /\ \E t \in txs :
       /\ t.event_id <= mig.legacy
       /\ t.tx_type = "receive_fee_platform"
       /\ COALESCE(t.free_amount, 0) > 0
       /\ COALESCE(t.permanent_amount, 0) > 0

-----------------------------------------------------------------------------
(* refund(event_id, reason): the same refund of a recharge submitted by    *)
(* several callers at once (section 4.3; scenario 5 of section 8).         *)

MaxSubmissions == 4
Submissions == 1..MaxSubmissions

\* The transactions of the refund of the top-up event e: the reverse of its
\* two rows.
RefundTxs(id, e) ==
  {Tx(id, PAYER, "refund", "debit", e.total_amount,
      e.free_amount, e.reward_amount, e.permanent_amount),
   Tx(id, "platform_source", "refund", "credit", e.total_amount,
      e.free_amount, e.reward_amount, e.permanent_amount)}

\* Mutant of RefundExists: the ledger is not searched for an earlier refund.
RefundExistsNever(evts, event_id) == FALSE

\* Whether the ledger already holds the refund of an event.
RefundExists(evts, event_id) ==
  \E i \in 1..Len(evts) :
    evts[i].event_type = "refund" /\ evts[i].refund_of = event_id

\* The tables after the refund of the event `target` is written.
RefundLedger(L, target) ==
  LET id == Len(L.events) + 1
      e == L.events[target].amounts
      session == [txs |-> RefundTxs(id, e)]
  IN  [events |-> Append(L.events,
                         [id |-> id, event_type |-> "refund",
                          amounts |-> e, refund_of |-> target]),
       txs |-> L.txs \cup CommittedTxs(session),
       accounts |-> ApplyTxs(L.accounts, session.txs)]

notRefund == <<feeVars, reqVars, auditVars, migVars, schedVars,
  frontVars, backVars>>

\* A start ledger is recharged; the refund of that recharge is then
\* submitted by every caller.
RefundInit ==
  /\ \E L \in StartLedgers, amount \in {50000, RechargeAmount} :
       LET R == TopUpLedger(L, "recharge", 0, 0, amount)
       IN  /\ accounts = R.accounts
           /\ events = R.events
           /\ txs = R.txs
           /\ refund = [pre |-> L.accounts, target |-> Len(R.events),
                        pc |-> [i \in Submissions |-> "idle"]]
  /\ FeeIdle /\ ReqIdle /\ AuditIdle /\ MigIdle /\ SchedIdle
  /\ FrontIdle /\ BackIdle

RefundLocked == \E i \in Submissions : refund.pc[i] = "commit"

\* A caller submits the refund request.
RefundSubmit(i) ==
  /\ refund.pc[i] = "idle"
  /\ refund' = [refund EXCEPT !.pc[i] = "submitted"]
  /\ UNCHANGED <<tableVars, notRefund>>

\* Locked region of refund: under the row lock of the account, a refund
\* that the ledger already holds makes the submission a no-op.
RefundBegin(i) ==
  /\ refund.pc[i] = "submitted"
  /\ ~RefundLocked
  /\ refund' = [refund EXCEPT !.pc[i] =
       IF RefundExists(events, refund.target) THEN "noop" ELSE "commit"]
  /\ UNCHANGED <<tableVars, notRefund>>

\* Commit of refund: event, transactions and balances become visible and
\* the row lock is released.
RefundCommit(i) ==
  /\ refund.pc[i] = "commit"
  /\ LET L == RefundLedger(Ledger, refund.target)
     IN  /\ events' = L.events
         /\ txs' = L.txs
         /\ accounts' = L.accounts
  /\ refund' = [refund EXCEPT !.pc[i] = "done"]
  /\ UNCHANGED notRefund

RefundNext ==
  \/ \E i \in Submissions : RefundSubmit(i)
  \/ \E i \in Submissions : RefundBegin(i)
  \/ \E i \in Submissions : RefundCommit(i)

RefundSpec == RefundInit /\ [][RefundNext]_vars

\* C9: however often and however concurrently the same refund request is
\* submitted, the ledger holds at most one refund event with one set of
\* transactions for it, and once a submission has returned it holds exactly
\* one and the balances equal the state before the recharge.
C9_RefundIdempotent ==
  LET refunds == {j \in 1..Len(events) : events[j].event_type = "refund"}
      rows == {t \in txs : t.tx_type = "refund"}
      returned == {i \in Submissions : refund.pc[i] \in {"done", "noop"}}
  IN  /\ Cardinality(refunds) <= 1
      /\ Cardinality(rows) = 2 * Cardinality(refunds)
      /\ \A t \in rows : t.event_id \in refunds
      /\ returned # {} =>
           /\ Cardinality(refunds) = 1
           /\ accounts = refund.pre

\* All four submissions have returned: one wrote the refund, the other
\* three were no-ops.
C9_Witness ==
  /\ \A i \in Submissions : refund.pc[i] \in {"done", "noop"}
  /\ Cardinality({i \in Submissions : refund.pc[i] = "noop"})
       = MaxSubmissions - 1
  /\ MaxSubmissions >= 4

-----------------------------------------------------------------------------
(* app/admin/scheduler.py: every scheduler process builds the same jobs    *)
(* with create_scheduler() and starts them; the job store is Redis when    *)
(* config.redis_host is set and the memory of the process otherwise.       *)

Replicas == {"scheduler", "backup"}
MaxMinutes == 3

\* The job store a process reads and writes.
StoreOf(p, redis_host) == IF redis_host THEN "redis" ELSE p

\* CronTrigger(minute="*"): the next fire time after `now`.
NextFireTime(now) == now + 1

notSched == <<feeVars, tableVars, reqVars, auditVars, migVars, refundVars,
  frontVars, backVars>>

SchedInit ==
  /\ clock = 0
  /\ \E redis_host \in BOOLEAN :
       jobstore = [redis_host |-> redis_host,
                   next_run_time |-> [s \in {"redis"} \cup Replicas |-> -1]]
  /\ replica = [p \in Replicas |-> [pc |-> "down", run_time |-> -1]]
  /\ runs = [t \in 1..MaxMinutes |-> 0]
  /\ FeeIdle /\ TablesIdle /\ ReqIdle /\ AuditIdle /\ MigIdle /\ RefundIdle
  /\ FrontIdle /\ BackIdle

\* create_scheduler() and scheduler.start(): add_job(..., id=
\* "scheduler_heartbeat", replace_existing=True) stores the job with its
\* next fire time.
StartScheduler(p) ==
  /\ replica[p].pc = "down"
  /\ jobstore' = [jobstore EXCEPT
       !.next_run_time[StoreOf(p, jobstore.redis_host)] = NextFireTime(clock)]
  /\ replica' = [replica EXCEPT ![p] = [@ EXCEPT !.pc = "idle"]]
  /\ UNCHANGED <<clock, runs, notSched>>

\* A minute passes.
Tick ==
  /\ clock < MaxMinutes
  /\ clock' = clock + 1
  /\ UNCHANGED <<jobstore, replica, runs, notSched>>

\* The scheduler wakes and reads the due jobs from its store; nothing is
\* written to the store and no lock is taken.
GetDueJobs(p) ==
  /\ replica[p].pc = "idle"
  /\ clock >= 1
  /\ LET next_run_time ==
           jobstore.next_run_time[StoreOf(p, jobstore.redis_host)]
     IN  /\ next_run_time # -1
         /\ next_run_time <= clock
  /\ replica' = [replica EXCEPT ![p] = [pc |-> "due", run_time |-> clock]]
  /\ UNCHANGED <<clock, jobstore, runs, notSched>>

\* The scheduler submits the due job to its executor, which invokes
\* send_scheduler_heartbeat, and then writes the job's next fire time.
RunJob(p) ==
  /\ replica[p].pc = "due"
  /\ runs' = [runs EXCEPT ![replica[p].run_time] = @ + 1]
  /\ jobstore' = [jobstore EXCEPT
       !.next_run_time[StoreOf(p, jobstore.redis_host)] = NextFireTime(clock)]
  /\ replica' = [replica EXCEPT ![p] = [pc |-> "idle", run_time |-> -1]]
  /\ UNCHANGED <<clock, notSched>>

SchedNext ==
  \/ \E p \in Replicas : StartScheduler(p)
  \/ Tick
  \/ \E p \in Replicas : GetDueJobs(p)
  \/ \E p \in Replicas : RunJob(p)

SchedSpec == SchedInit /\ [][SchedNext]_vars

\* C10 (as stated): with a scheduler replica and a backup replica running
\* the same job id against the same store, no tick of the minutely job is
\* executed twice.
C10_NoTickRunsTwice ==
  (jobstore.redis_host /\ \A p \in Replicas : replica[p].pc # "down")
    => \A t \in 1..MaxMinutes : runs[t] <= 1

-----------------------------------------------------------------------------
(* Claims on the payment gate (checked under LedgerSpec). *)

\* The sum of the costs of the tool calls that name a registered skill.
SumOfCosts(calls) ==
  LET priced == {i \in 1..Len(calls) : calls[i] \in Skills}
  IN  SetSum([i \in priced |-> skill_cost(calls[i])], priced)

\* A request the gate has decided on, and one it has blocked.
GateDecided(r) == req[r].have >= 0
GateBlocked(r) == req[r].have >= 0 /\ req[r].need # -1

\* C11 (as stated): for an assistant turn that carries tool calls and has a
\* payer, the amount the payment gate requires is the sum of the costs of
\* all tool calls, and the turn is blocked exactly when the payer's balance
\* is less than that sum.
C11_GateRequiresSum ==
  \A r \in Requests :
    GateDecided(r) =>
      /\ GateBlocked(r) <=> req[r].have < SumOfCosts(req[r].calls)
      /\ GateBlocked(r) => req[r].need = SumOfCosts(req[r].calls)

\* C12 (as stated): a blocked turn has the error flag INSUFFICIENT_CREDITS
\* and its tool-calling assistant message is replaced by exactly one system
\* message whose content contains "Insufficient credits" and the shortfall
\* amount; no tool is executed and no CreditTransaction is written.
C12_SystemMessageWithShortfall ==
  \A r \in Requests :
    GateBlocked(r) =>
      LET m == req[r].messages
          last == m[Len(m)]
      IN  /\ req[r].error = "INSUFFICIENT_CREDITS"
          /\ last.type = "system"
          /\ (req[r].need - req[r].have) \in {last.need, last.have}

\* C12 (amended): when the payer's balance is below the amount the payment
\* gate requires, the post-model hook sets the error flag to
\* INSUFFICIENT_CREDITS, replaces the tool-calling assistant message by a
\* removal marker and appends exactly one assistant (AI) message whose
\* content contains "Insufficient credits", the amount required and the
\* payer's balance (not their difference); the request ends there: no tool
\* call of it is settled and no pay event is written for it.
C12_InsufficientCreditsNotice ==
  \A r \in Requests :
    GateBlocked(r) =>
      LET m == req[r].messages
          last == m[Len(m)]
      IN  /\ req[r].have < req[r].need
          /\ req[r].error = "INSUFFICIENT_CREDITS"
          /\ Len(m) = Len(TurnMessages(req[r].calls)) + 1
          /\ m[Len(m) - 1] = [type |-> "remove", id |-> 2]
          /\ \A i \in 1..(Len(m) - 2) : m[i] = TurnMessages(req[r].calls)[i]
          /\ last.type = "ai"
          /\ last.text = "Insufficient credits. Please top up your account."
          /\ last.need = req[r].need
          /\ last.have = req[r].have
          /\ req[r].pc = "done" /\ req[r].k = 0
          /\ \A i \in 1..Len(debitLog) : debitLog[i].request # r

\* A turn was blocked while the other request of the same payer paid.
C12_Witness ==
  \E r \in Requests :
    /\ GateBlocked(r)
    /\ req[r].have > 0
    /\ debitLog # << >>

-----------------------------------------------------------------------------
(* app/core/node.py, PreModelNode: the memory policy applied before the    *)
(* model is called.                                                        *)

MaxHistory == 3
MaxMessageTokens == 2
\* max_summary_tokens: int = 1024
DefaultMaxSummaryTokens == 1024

MessageTypes == {"human", "ai", "tool"}
Strategies == {"trim", "summarize", "compress"}

\* Message lists: message i has id i, a type and a token estimate.
Histories ==
  UNION {{[i \in 1..n |-> [id |-> i, type |-> ty[i], tokens |-> tk[i]]] :
            ty \in [1..n -> MessageTypes],
            tk \in [1..n -> 1..MaxMessageTokens]} : n \in 0..MaxHistory}

\* The configured budgets: max_tokens, and max_summary_tokens either set or
\* left at its default.
MaxTokensChoices == {2, 4}
MaxSummaryTokensChoices == {3, DefaultMaxSummaryTokens}

\* count_tokens_approximately: the estimates of the messages add up.
token_counter(messages) ==
  SetSum([i \in 1..Len(messages) |-> messages[i].tokens], 1..Len(messages))

Reverse(messages) ==
  [i \in 1..Len(messages) |-> messages[Len(messages) + 1 - i]]

\* The longest prefix of the messages whose last message has a type in
\* end_on.
DropUntil(messages, end_on) ==
  LET ok == {i \in 1..Len(messages) : messages[i].type \in end_on}
  IN  IF ok = {} THEN << >>
      ELSE SubSeq(messages, 1, CHOOSE i \in ok : \A j \in ok : j <= i)

\* trim_messages, strategy "first" without partial messages: the longest
\* prefix within max_tokens, cut back to a message of a type in end_on.
first_max_tokens(messages, max_tokens, end_on) ==
  LET fit == {i \in 0..Len(messages) :
                token_counter(SubSeq(messages, 1, i)) <= max_tokens}
      idx == CHOOSE i \in fit : \A j \in fit : j <= i
  IN  DropUntil(SubSeq(messages, 1, idx), end_on)

\* trim_messages(strategy="last", start_on, end_on): messages after the
\* last one of a type in end_on are dropped, then the reversed list is
\* trimmed from its front and reversed back.
trim_messages(messages, max_tokens, start_on, end_on) ==
  Reverse(first_max_tokens(Reverse(DropUntil(messages, end_on)),
                           max_tokens, start_on))

\* The max_tokens argument PreModelNode passes to trim_messages.
TrimBudget(node) == node.max_summary_tokens

notMem ==
  <<feeVars, tableVars, reqVars, auditVars, migVars, refundVars, schedVars,
    chats, resp, sse, hb, backVars>>

MemInit ==
  /\ \E messages \in Histories, strategy \in Strategies,
        max_tokens \in MaxTokensChoices,
        max_summary_tokens \in MaxSummaryTokensChoices :
       mem = [pc |-> "input", messages |-> messages,
              short_term_memory_strategy |-> strategy,
              max_tokens |-> max_tokens,
              max_summary_tokens |-> max_summary_tokens,
              out |-> [kind |-> "none"]]
  /\ FeeIdle /\ TablesIdle /\ ReqIdle /\ AuditIdle /\ MigIdle /\ RefundIdle
  /\ SchedIdle /\ ApiIdle /\ SseIdle /\ HbIdle /\ BackIdle

\* PreModelNode._afunc: _parse_input raises on an empty list; "trim"
\* returns the trimmed messages after a remove-all marker; "summarize"
\* returns what the summarization produced; any other strategy raises.
PreModelNode ==
  /\ mem.pc = "input"
  /\ mem' = [mem EXCEPT
       !.pc = "returned",
       !.out =
         IF Len(mem.messages) = 0
         THEN [kind |-> "raised", error |-> "ValueError"]
         ELSE IF mem.short_term_memory_strategy = "trim"
         THEN [kind |-> "messages",
               messages |->
                 trim_messages(mem.messages, TrimBudget(mem),
                               {"human"}, {"human", "tool"})]
         ELSE IF mem.short_term_memory_strategy = "summarize"
         THEN [kind |-> "summarization_result"]
         ELSE [kind |-> "raised", error |-> "ValueError"]]
  /\ UNCHANGED notMem

MemNext == PreModelNode

MemSpec == MemInit /\ [][MemNext]_vars

-----------------------------------------------------------------------------
(* Claims on the memory policy (checked under MemSpec). *)

\* The kept list the trim strategy owes for a budget B: of the messages up
\* to the last user or tool message, the longest suffix that starts with a
\* user message and whose token estimate is at most B (empty if none).
LongestBoundedSuffix(messages, B) ==
  LET upto == DropUntil(messages, {"human", "tool"})
      starts == {i \in 1..Len(upto) :
                   /\ upto[i].type = "human"
                   /\ token_counter(SubSeq(upto, i, Len(upto))) <= B}
  IN  IF starts = {} THEN << >>
      ELSE SubSeq(upto, CHOOSE i \in starts : \A j \in starts : i <= j,
                  Len(upto))

TrimReturned ==
  /\ mem.pc = "returned"
  /\ mem.short_term_memory_strategy = "trim"
  /\ mem.out.kind = "messages"

\* C13 (as stated): under the trim strategy with token budget B, the node's
\* configured max_tokens, the pre-model hook keeps the longest suffix of the
\* most recent messages whose token estimate is at most B, and the kept
\* list starts with a user message and ends with a user or a tool message.
C13_TrimKeepsWithinMaxTokens ==
  TrimReturned =>
    LET kept == mem.out.messages
    IN  /\ token_counter(kept) <= mem.max_tokens
        /\ kept = LongestBoundedSuffix(mem.messages, mem.max_tokens)
        /\ kept # << >> =>
             /\ kept[1].type = "human"
             /\ kept[Len(kept)].type \in {"human", "tool"}

\* C14 (as stated): the memory policy passes an empty message history
\* through unchanged, without error, and returns a history whose token
\* estimate is within the budget with exactly the same messages in the same
\* order.
C14_EmptyAndSmallHistoriesUnchanged ==
  mem.pc = "returned" =>
    /\ mem.messages = << >> =>
         mem.out.kind \in {"messages", "summarization_result"}
    /\ (TrimReturned /\ token_counter(mem.messages) <= mem.max_tokens) =>
         mem.out.messages = mem.messages

-----------------------------------------------------------------------------
(* Chat API: threads and messages (app/entrypoints/agent_api.py) *)

\* `chats` holds the relational tables the handlers read and write and the
\* two counters of the execution engine; `resp` holds the last HTTP response
\* together with the request that produced it (and, for PATCH and DELETE,
\* the thread table as it was before the request).

\* The identifiers XID() hands out for new threads, in order.
ChatIds == <<"c1", "c2">>
ChatIdSet == {ChatIds[i] : i \in 1..Len(ChatIds)}
MaxMessages == 3
MaxLimit == 2

AgentIds == {"a1", "a2"}
\* Agent.owner; "" stands for None.
AgentOwner == [a1 |-> "o1", a2 |-> ""]
\* Verified agent tokens: a secret and a public key of a1, a secret key of a2.
AgentTokens ==
  { [agent_id |-> "a1", is_public |-> FALSE],
    [agent_id |-> "a1", is_public |-> TRUE],
    [agent_id |-> "a2", is_public |-> FALSE] }
\* The optional user_id query parameter; "" stands for None.
UserIds == {"", "u1"}

AuthorTypes == {"api", "agent", "skill", "system"}

get_real_user_id(agent_token, user_id, agent_owner) ==
  IF user_id # ""
  THEN agent_token.agent_id \o "_" \o user_id
  ELSE IF agent_token.is_public
       THEN agent_token.agent_id \o "_anonymous"
       ELSE IF agent_owner # "" THEN agent_owner ELSE agent_token.agent_id

\* Chat.get(chat_id): the set holding the row, empty when there is none.
ChatGet(db, chat_id) == {c \in db.chat : c.id = chat_id}

\* ORDER BY key: the rows of S as a sequence, ascending or descending.
RECURSIVE OrderBy(_, _, _)
OrderBy(S, key, descending) ==
  IF S = {} THEN << >>
  ELSE LET m == CHOOSE x \in S : \A y \in S :
                  IF descending THEN x[key] >= y[key] ELSE x[key] <= y[key]
       IN  <<m>> \o OrderBy(S \ {m}, key, descending)

\* LIMIT n
Limit(s, n) == SubSeq(s, 1, Min(n, Len(s)))

\* WHERE agent_id = :agent_id AND chat_id = :chat_id
ThreadRows(db, agent_id, chat_id) ==
  {m \in db.message : m.agent_id = agent_id /\ m.chat_id = chat_id}

NewMessage(db, agent_id, chat_id, author_type, system_type, k) ==
  [id |-> db.next_id + k, agent_id |-> agent_id, chat_id |-> chat_id,
   author_type |-> author_type, system_type |-> system_type,
   created_at |-> db.now + k]

\* What one run of the engine leaves behind the user message: an agent
\* answer, a skill call and the answer, a system error message, a skill
\* call that was interrupted, or nothing when the run died after saving the
\* user message.
ReplyTails ==
  { <<"agent">>, <<"skill", "agent">>, <<"system">>, <<"skill">>, << >> }

\* execute_agent(user_message): saves the user message, runs the agent,
\* saves and returns what it produced, and charges the run.
execute_agent(db, agent_id, chat_id, tail) ==
  LET user_message == NewMessage(db, agent_id, chat_id, "api", "", 0)
      replies == [k \in 1..Len(tail) |->
                    NewMessage(db, agent_id, chat_id, tail[k], "", k)]
  IN  [db |-> [db EXCEPT !.message = @ \cup {user_message}
                                       \cup {replies[k] : k \in 1..Len(tail)},
                         !.next_id = @ + 1 + Len(tail),
                         !.now = @ + 1 + Len(tail),
                         !.engine_runs = @ + 1,
                         !.charged = @ + 1],
       response |-> replies]

\* ChatCreate(id=str(XID()), agent_id, user_id, summary="", rounds=0).save()
ChatCreate(db, agent_token, user_id) ==
  LET agent_id == agent_token.agent_id
      real_user_id == get_real_user_id(agent_token, user_id,
                                       AgentOwner[agent_id])
      chat == [id |-> ChatIds[db.next_chat], agent_id |-> agent_id,
               user_id |-> real_user_id, summary |-> "", rounds |-> 0]
  IN  [db EXCEPT !.chat = @ \cup {chat}, !.next_chat = @ + 1]

NoResponse == [op |-> "none", status |-> 0]

EmptyDb ==
  [chat |-> {}, message |-> {}, next_chat |-> 1, next_id |-> 1, now |-> 1,
   engine_runs |-> 0, charged |-> 0]

notApi ==
  <<feeVars, tableVars, reqVars, auditVars, migVars, refundVars, schedVars,
    mem, sse, hb, backVars>>

\* Thread management starts on empty tables.
ThreadInit ==
  /\ chats = EmptyDb
  /\ resp = NoResponse
  /\ FeeIdle /\ TablesIdle /\ ReqIdle /\ AuditIdle /\ MigIdle /\ RefundIdle
  /\ SchedIdle /\ MemIdle /\ SseIdle /\ HbIdle /\ BackIdle

\* Messaging starts after the owner of agent a1 and its user u1 have each
\* created a thread (POST /chats with a1's secret key, without and with
\* user_id=u1).
MessageInit ==
  /\ chats = ChatCreate(ChatCreate(EmptyDb, [agent_id |-> "a1",
                                             is_public |-> FALSE], ""),
                        [agent_id |-> "a1", is_public |-> FALSE], "u1")
  /\ resp = NoResponse
  /\ FeeIdle /\ TablesIdle /\ ReqIdle /\ AuditIdle /\ MigIdle /\ RefundIdle
  /\ SchedIdle /\ MemIdle /\ SseIdle /\ HbIdle /\ BackIdle

Request(op, agent_token, user_id, chat_id) ==
  [op |-> op, agent_token |-> agent_token, user_id |-> user_id,
   chat_id |-> chat_id]

\* POST /chats
create_chat(agent_token, user_id) ==
  /\ chats.next_chat <= Len(ChatIds)
  /\ chats' = ChatCreate(chats, agent_token, user_id)
  /\ resp' = Request("create_chat", agent_token, user_id,
                     ChatIds[chats.next_chat]) @@ [status |-> 200]
  /\ UNCHANGED notApi

\* PATCH /chats/{chat_id}
update_chat(agent_token, chat_id, summary) ==
  LET agent_id == agent_token.agent_id
      found == ChatGet(chats, chat_id)
      request == Request("update_chat", agent_token, "", chat_id)
                   @@ [before |-> chats.chat]
  IN  IF found = {} \/ (\E c \in found : c.agent_id # agent_id)
      THEN /\ resp' = request @@ [status |-> 404]
           /\ UNCHANGED <<chats, notApi>>
      ELSE /\ chats' = [chats EXCEPT !.chat =
                          {IF c.id = chat_id
                           THEN [c EXCEPT !.summary = summary] ELSE c
                             : c \in @}]
           /\ resp' = request @@ [status |-> 200]
           /\ UNCHANGED notApi

\* DELETE /chats/{chat_id}
delete_chat(agent_token, chat_id) ==
  LET agent_id == agent_token.agent_id
      found == ChatGet(chats, chat_id)
      request == Request("delete_chat", agent_token, "", chat_id)
                   @@ [before |-> chats.chat]
  IN  IF found = {} \/ (\E c \in found : c.agent_id # agent_id)
      THEN /\ resp' = request @@ [status |-> 404]
           /\ UNCHANGED <<chats, notApi>>
      ELSE /\ chats' = [chats EXCEPT !.chat = @ \ found]
           /\ resp' = request @@ [status |-> 204]
           /\ UNCHANGED notApi

\* The page query fetching exactly `limit` rows.
FetchLimitExact(limit) == limit

\* .limit(limit + 1)
FetchLimit(limit) == limit + 1

\* The cursor filter letting the cursor's own message through.
UpToCursor(m, cursor) == m.id <= cursor

\* stmt.where(ChatMessageTable.id < cursor)
BeforeCursor(m, cursor) == m.id < cursor

\* GET /chats/{chat_id}/messages?cursor&limit; cursor 0 stands for None.
get_messages(agent_token, chat_id, cursor, limit) ==
  LET agent_id == agent_token.agent_id
      found == ChatGet(chats, chat_id)
      request == Request("get_messages", agent_token, "", chat_id)
                   @@ [cursor |-> cursor, limit |-> limit]
      rows == {m \in ThreadRows(chats, agent_id, chat_id) :
                 cursor # 0 => BeforeCursor(m, cursor)}
      messages == Limit(OrderBy(rows, "id", TRUE), FetchLimit(limit))
      has_more == Len(messages) > limit
      messages_to_return == Limit(messages, limit)
      next_cursor == IF has_more /\ messages_to_return # << >>
                     THEN messages_to_return[Len(messages_to_return)].id
                     ELSE 0
  IN  /\ IF found = {} \/ (\E c \in found : c.agent_id # agent_id)
         THEN resp' = request @@ [status |-> 404]
         ELSE resp' = request @@ [status |-> 200, data |-> messages_to_return,
                                 has_more |-> has_more,
                                 next_cursor |-> next_cursor]
      /\ UNCHANGED <<chats, notApi>>

ChatOwned(db, agent_token, user_id, chat_id) ==
  LET agent_id == agent_token.agent_id
      real_user_id == get_real_user_id(agent_token, user_id,
                                       AgentOwner[agent_id])
  IN  \E c \in ChatGet(db, chat_id) :
        c.agent_id = agent_id /\ c.user_id = real_user_id

\* POST /chats/{chat_id}/messages (non-streaming)
send_message(agent_token, user_id, chat_id, tail) ==
  LET agent_id == agent_token.agent_id
      request == Request("send_message", agent_token, user_id, chat_id)
      rounded == [chats EXCEPT !.chat =
                    {IF c.id = chat_id
                     THEN [c EXCEPT !.summary = IF @ = "" THEN "message" ELSE @,
                                    !.rounds = @ + 1]
                     ELSE c : c \in @}]
      run == execute_agent(rounded, agent_id, chat_id, tail)
  IN  IF ~ChatOwned(chats, agent_token, user_id, chat_id)
      THEN /\ resp' = request @@ [status |-> 404]
           /\ UNCHANGED <<chats, notApi>>
      ELSE /\ Cardinality(chats.message) + 1 + Len(tail) <= MaxMessages
           /\ chats' = run.db
           /\ resp' = request @@ [status |-> 200, data |-> run.response]
           /\ UNCHANGED notApi

\* The SKILL_INTERRUPTED branch of retry falling through to the engine.
RetrySkillBranchNever(last_message) == FALSE

\* last_message.author_type == AuthorType.SKILL
RetrySkillBranch(last_message) == last_message.author_type = "skill"

\* The tail query of retry selecting from the last user message inclusive.
MessagesFromUser(db, agent_id, chat_id, last_user_message) ==
  {m \in ThreadRows(db, agent_id, chat_id) :
     m.created_at >= last_user_message.created_at}

\* WHERE ... created_at > last_user_message.created_at
MessagesAfterUser(db, agent_id, chat_id, last_user_message) ==
  {m \in ThreadRows(db, agent_id, chat_id) :
     m.created_at > last_user_message.created_at}

\* POST /chats/{chat_id}/messages/retry
retry_message(agent_token, user_id, chat_id, tail) ==
  LET agent_id == agent_token.agent_id
      request == Request("retry_message", agent_token, user_id, chat_id)
      thread == ThreadRows(chats, agent_id, chat_id)
      last == Limit(OrderBy(thread, "created_at", TRUE), 1)
      last_message == last[1]
      last_user == Limit(OrderBy({m \in thread : m.author_type = "api"},
                                 "created_at", TRUE), 1)
      messages_list ==
        OrderBy(MessagesAfterUser(chats, agent_id, chat_id, last_user[1]),
                "created_at", FALSE)
      error_message ==
        NewMessage(chats, agent_id, chat_id, "system", "SKILL_INTERRUPTED", 0)
      run == execute_agent(chats, agent_id, chat_id, tail)
  IN  IF ~ChatOwned(chats, agent_token, user_id, chat_id)
      THEN /\ resp' = request @@ [status |-> 404]
           /\ UNCHANGED <<chats, notApi>>
      ELSE IF last = << >>
      THEN /\ resp' = request @@ [status |-> 404]
           /\ UNCHANGED <<chats, notApi>>
      ELSE IF last_message.author_type \in {"agent", "system"}
      THEN /\ resp' = request @@
                [status |-> 200,
                 data |-> IF last_user = << >> THEN <<last_message>>
                          ELSE IF messages_list # << >> THEN messages_list
                          ELSE <<last_message>>]
           /\ UNCHANGED <<chats, notApi>>
      ELSE IF RetrySkillBranch(last_message)
      THEN /\ Cardinality(chats.message) + 1 <= MaxMessages
           /\ chats' = [chats EXCEPT !.message = @ \cup {error_message},
                                     !.next_id = @ + 1, !.now = @ + 1]
           /\ resp' = request @@
                [status |-> 200, data |-> <<last_message, error_message>>]
           /\ UNCHANGED notApi
      ELSE /\ Cardinality(chats.message) + 1 + Len(tail) <= MaxMessages
           /\ chats' = run.db
           /\ resp' = request @@ [status |-> 200, data |-> run.response]
           /\ UNCHANGED notApi

CreateChat == \E t \in AgentTokens, u \in UserIds : create_chat(t, u)

UpdateChat ==
  \E t \in AgentTokens, c \in ChatIdSet : update_chat(t, c, "renamed")

DeleteChat ==
  \E t \in AgentTokens, c \in ChatIdSet : delete_chat(t, c)

GetMessages ==
  \E t \in AgentTokens, c \in ChatIdSet,
     cursor \in {0} \cup {m.id : m \in chats.message}, limit \in 1..MaxLimit :
    get_messages(t, c, cursor, limit)

SendMessage ==
  \E t \in AgentTokens, u \in UserIds, c \in ChatIdSet,
     tail \in ReplyTails :
    send_message(t, u, c, tail)

RetryMessage ==
  \E t \in AgentTokens, u \in UserIds, c \in ChatIdSet,
     tail \in ReplyTails :
    retry_message(t, u, c, tail)

ThreadNext ==
  \/ CreateChat
  \/ UpdateChat
  \/ DeleteChat

ThreadSpec == ThreadInit /\ [][ThreadNext]_vars

MessageNext ==
  \/ SendMessage
  \/ RetryMessage
  \/ GetMessages

MessageSpec == MessageInit /\ [][MessageNext]_vars

-----------------------------------------------------------------------------
(* Chat API claims *)

\* The messages of a thread, whatever agent_id they carry.
ThreadOf(db, chat_id) == {m \in db.message : m.chat_id = chat_id}

\* The thread in creation order.
InCreationOrder(db, chat_id) == OrderBy(ThreadOf(db, chat_id), "created_at", FALSE)

LastAuthor(db, chat_id) ==
  LET thread == InCreationOrder(db, chat_id)
  IN  IF thread = << >> THEN "none" ELSE thread[Len(thread)].author_type

\* What follows the last user message of the thread, in creation order.
TailAfterLastUser(db, chat_id) ==
  LET thread == InCreationOrder(db, chat_id)
      users == {i \in 1..Len(thread) : thread[i].author_type = "api"}
      i == IF users = {} THEN 0 ELSE CHOOSE k \in users : \A j \in users : j <= k
  IN  SubSeq(thread, i + 1, Len(thread))

\* C15: GET /chats/{id}/messages with no cursor and limit L returns the
\* min(L, n) messages of the thread with the largest IDs in strictly
\* descending ID order, and has_more is true if and only if the thread holds
\* a message with an ID smaller than every returned one.
C15_FirstPage ==
  (resp.op = "get_messages" /\ resp.status = 200 /\ resp.cursor = 0) =>
    LET thread == ThreadOf(chats, resp.chat_id)
        data == resp.data
        returned == {data[i] : i \in 1..Len(data)}
    IN  /\ Len(data) = Min(resp.limit, Cardinality(thread))
        /\ returned \subseteq thread
        /\ \A i \in 1..Len(data) - 1 : data[i].id > data[i + 1].id
        /\ \A m \in thread \ returned : \A r \in returned : m.id < r.id
        /\ resp.has_more <=> \E m \in thread : \A r \in returned : m.id < r.id

\* A first page of one message was cut from a longer thread while the other
\* thread of the same agent holds messages too.
C15_Witness ==
  /\ resp.op = "get_messages" /\ resp.status = 200 /\ resp.cursor = 0
  /\ resp.has_more
  /\ Len(resp.data) = 1
  /\ \E m \in chats.message : m.chat_id # resp.chat_id

\* C16: when the last message of a thread is authored by the agent or the
\* system, retry returns exactly the messages that follow the last user
\* message, in creation order, and the step invokes no engine run, writes no
\* message and charges nothing: the tables are left as they were.
C16_RetryReemitsTail ==
  [][ ( /\ resp'.op = "retry_message"
        /\ resp'.status = 200
        /\ LastAuthor(chats, resp'.chat_id) \in {"agent", "system"} )
      => /\ resp'.data = TailAfterLastUser(chats, resp'.chat_id)
         /\ chats' = chats ]_vars

\* After a single engine run that left a skill call and an answer, a retry
\* has returned those two messages.
C16_Witness ==
  /\ resp.op = "retry_message" /\ resp.status = 200
  /\ chats.engine_runs = 1
  /\ Len(resp.data) = 2
  /\ resp.data[1].author_type = "skill"
  /\ resp.data[2].author_type = "agent"

\* C17: when the last message of a thread is an interrupted skill message,
\* retry answers with a SKILL_INTERRUPTED system notice and stops: the engine
\* is not invoked and nothing is charged.
C17_RetryAfterInterruptedSkill ==
  [][ ( /\ resp'.op = "retry_message"
        /\ resp'.status = 200
        /\ LastAuthor(chats, resp'.chat_id) = "skill" )
      => /\ \E i \in 1..Len(resp'.data) :
              /\ resp'.data[i].author_type = "system"
              /\ resp'.data[i].system_type = "SKILL_INTERRUPTED"
         /\ chats'.engine_runs = chats.engine_runs
         /\ chats'.charged = chats.charged ]_vars

\* A retry has answered with the interrupted skill message and the notice.
C17_Witness ==
  /\ resp.op = "retry_message" /\ resp.status = 200
  /\ Len(resp.data) = 2
  /\ resp.data[1].author_type = "skill"
  /\ resp.data[2].system_type = "SKILL_INTERRUPTED"
  /\ chats.engine_runs = 1

\* The user a request without user_id acts for.
CallingUser(agent_token) ==
  get_real_user_id(agent_token, "", AgentOwner[agent_token.agent_id])

\* C18 (as stated): DELETE /chats/{id} and PATCH /chats/{id} act on a thread
\* only if it exists, belongs to the token's agent and is owned by the
\* calling user; in every other case they return 404 and the thread table is
\* left unchanged.
C18_OnlyOwnerActs ==
  resp.op \in {"update_chat", "delete_chat"} =>
    LET owned == \E c \in resp.before :
                   /\ c.id = resp.chat_id
                   /\ c.agent_id = resp.agent_token.agent_id
                   /\ c.user_id = CallingUser(resp.agent_token)
    IN  ~owned => (resp.status = 404 /\ chats.chat = resp.before)

-----------------------------------------------------------------------------
(* OpenAI-compatible streaming (app/entrypoints/openai_compatible.py) *)

\* `sse` is one streaming response: the generator the handler created, the
\* events the server has sent so far, and whether the generator is exhausted.
\* An optional JSON field is << >> for null and <<v>> for a value v.

MaxParts == 3
ChunkSize == 20
\* Lengths of the content handed to create_streaming_response.
ContentLengths == {0, 1, 20, 21, 41}
\* The content parts create_streaming_response_batched is handed.
PartTexts == {"", "hello", "running skill..."}
ContentPartLists == UNION {[1..n -> PartTexts] : n \in 0..MaxParts}

\* f"data: {payload}\n\n"
SseEvent(payload) == [field |-> "data: ", payload |-> payload, end |-> "\n\n"]

\* OpenAIChatCompletionChunk(...).model_dump_json()
Chunk(role, content, finish_reason) ==
  [object |-> "chat.completion.chunk", index |-> 0, role |-> role,
   content |-> content, finish_reason |-> finish_reason]

first_chunk == Chunk(<<"assistant">>, << >>, << >>)
final_chunk == Chunk(<< >>, << >>, <<"stop">>)
Done == [object |-> "[DONE]"]

\* The end of the stream with the two last events swapped.
StreamEndDoneFirst == <<SseEvent(Done), SseEvent(final_chunk)>>

\* yield final_chunk; yield "data: [DONE]\n\n"
StreamEnd == <<SseEvent(final_chunk), SseEvent(Done)>>

\* for i in range(0, len(content), chunk_size): yield content[i : i + chunk_size]
RECURSIVE ContentChunks(_, _)
ContentChunks(content, i) ==
  IF i >= Len(content) THEN << >>
  ELSE <<SseEvent(Chunk(<< >>,
                        <<SubSeq(content, i + 1,
                                 Min(i + ChunkSize, Len(content)))>>,
                        << >>))>>
       \o ContentChunks(content, i + ChunkSize)

\* Everything the generator yields, in order.
create_streaming_response(content) ==
  <<SseEvent(first_chunk)>> \o ContentChunks(content, 0) \o StreamEnd

\* for i, content_part in enumerate(content_parts): ...
RECURSIVE PartChunks(_, _)
PartChunks(content_parts, i) ==
  IF i >= Len(content_parts) THEN << >>
  ELSE LET content_part == content_parts[i + 1]
       IN  (IF content_part # ""
            THEN (IF i > 0
                  THEN <<SseEvent(Chunk(<< >>, <<"\n">>, << >>))>>
                  ELSE << >>)
                 \o <<SseEvent(Chunk(<< >>, <<content_part>>, << >>))>>
            ELSE << >>)
           \o PartChunks(content_parts, i + 1)

create_streaming_response_batched(content_parts) ==
  <<SseEvent(first_chunk)>> \o PartChunks(content_parts, 0) \o StreamEnd

notSse ==
  <<feeVars, tableVars, reqVars, auditVars, migVars, refundVars, schedVars,
    mem, chats, resp, hb, backVars>>

\* The handler has built the response object around a generator that has
\* not been started.
SseInit ==
  /\ \/ \E n \in ContentLengths :
          sse = [generator |-> create_streaming_response([i \in 1..n |-> i]),
                 batched |-> FALSE, sent |-> << >>, exhausted |-> FALSE]
     \/ \E content_parts \in ContentPartLists :
          sse = [generator |->
                   create_streaming_response_batched(content_parts),
                 batched |-> TRUE, sent |-> << >>, exhausted |-> FALSE]
  /\ FeeIdle /\ TablesIdle /\ ReqIdle /\ AuditIdle /\ MigIdle /\ RefundIdle
  /\ SchedIdle /\ MemIdle /\ ApiIdle /\ HbIdle /\ BackIdle

\* The server resumes the generator and sends what it yields.
StreamYield ==
  /\ ~sse.exhausted
  /\ Len(sse.sent) < Len(sse.generator)
  /\ sse' = [sse EXCEPT !.sent = Append(@, sse.generator[Len(@) + 1])]
  /\ UNCHANGED notSse

\* The generator returns: the response body is complete.
StreamReturn ==
  /\ ~sse.exhausted
  /\ Len(sse.sent) = Len(sse.generator)
  /\ sse' = [sse EXCEPT !.exhausted = TRUE]
  /\ UNCHANGED notSse

SseNext == StreamYield \/ StreamReturn

SseSpec == SseInit /\ [][SseNext]_vars

IsRoleChunk(e) ==
  /\ e.payload.object = "chat.completion.chunk"
  /\ e.payload.role = <<"assistant">>
  /\ e.payload.finish_reason = << >>

IsContentChunk(e) ==
  /\ e.payload.object = "chat.completion.chunk"
  /\ e.payload.role = << >>
  /\ e.payload.content # << >>
  /\ e.payload.finish_reason = << >>

IsStopChunk(e) ==
  /\ e.payload.object = "chat.completion.chunk"
  /\ e.payload.finish_reason = <<"stop">>

IsDone(e) == e.payload.object = "[DONE]"

\* C19: every OpenAI-compatible streaming response is a sequence of
\* `data: <payload>` events each terminated by a blank line, in the order:
\* one role chunk, the content chunks, exactly one chunk with
\* finish_reason=stop, then `data: [DONE]` as the last event; nothing is
\* sent after [DONE].
C19_StreamOrder ==
  LET sent == sse.sent
      n == Len(sent)
  IN  /\ \A i \in 1..n : sent[i].field = "data: " /\ sent[i].end = "\n\n"
      /\ \A i \in 1..n : IsDone(sent[i]) => i = n
      /\ sse.exhausted =>
           /\ n >= 3
           /\ IsRoleChunk(sent[1])
           /\ \A i \in 2..n - 2 : IsContentChunk(sent[i])
           /\ IsStopChunk(sent[n - 1])
           /\ IsDone(sent[n])
           /\ Cardinality({i \in 1..n : IsStopChunk(sent[i])}) = 1
           /\ Cardinality({i \in 1..n : IsRoleChunk(sent[i])}) = 1

\* A batched response of three parts has been sent completely: the role
\* chunk, five content chunks (two of them newlines), stop and [DONE].
C19_Witness ==
  /\ sse.exhausted
  /\ sse.batched
  /\ Len(sse.sent) = 8

-----------------------------------------------------------------------------
(* Heartbeats (app/scheduler.py, app/checker.py, scripts/check_heartbeat.py) *)

\* `hb` is one worker process with its heartbeat job, the key-value store
\* with its logical databases, the wall clock in minutes, and the outcome of
\* the last run of scripts/check_heartbeat.py.

MaxHbMinutes == 20
\* "expires after 16 minutes"
HeartbeatTtlMinutes == 16
\* CronTrigger(minute="*") and CronTrigger(minute="*/5")
BeatEvery == [scheduler |-> 1, checker |-> 5]
Workers == {"scheduler", "checker"}
\* The logical database init_redis selects when it is not given db.
DefaultRedisDb == 0
\* config.redis_db
RedisDbs == {0, 1}

\* The database a worker process connects to: init_redis(host=..., port=...)
WorkerDb(redis_db) == DefaultRedisDb

\* The database check_heartbeat.py connects to:
\* init_redis(host=..., port=..., db=config.redis_db)
CheckDb(redis_db) == redis_db

\* check_heartbeat(redis_client, name): the key exists and has not expired.
check_heartbeat(store, db, now) == now < store[db]

NoHeartbeatCheck == [exit |-> -1, alive |-> FALSE]

notHb ==
  <<feeVars, tableVars, reqVars, auditVars, migVars, refundVars, schedVars,
    mem, chats, resp, sse, backVars>>

HbInit ==
  /\ \E name \in Workers, redis_db \in RedisDbs :
       hb = [name |-> name, redis_db |-> redis_db, state |-> "created",
             now |-> 0, started_at |-> 0, last_beat |-> -1,
             expires |-> [db \in RedisDbs |-> 0],
             check |-> NoHeartbeatCheck]
  /\ FeeIdle /\ TablesIdle /\ ReqIdle /\ AuditIdle /\ MigIdle /\ RefundIdle
  /\ SchedIdle /\ MemIdle /\ ApiIdle /\ SseIdle /\ BackIdle

\* The cron trigger of the heartbeat job has a fire time now that has not
\* been served.
BeatDue ==
  /\ hb.state = "running"
  /\ hb.now > hb.started_at
  /\ hb.now % BeatEvery[hb.name] = 0
  /\ hb.last_beat < hb.now

\* main(): init_redis, create the scheduler with the heartbeat job, start it.
StartWorker ==
  /\ hb.state = "created"
  /\ hb' = [hb EXCEPT !.state = "running", !.started_at = hb.now]
  /\ UNCHANGED notHb

\* A minute passes; a due heartbeat job runs before the next minute starts.
HbTick ==
  /\ hb.now < MaxHbMinutes
  /\ ~BeatDue
  /\ hb' = [hb EXCEPT !.now = @ + 1]
  /\ UNCHANGED notHb

\* send_scheduler_heartbeat / send_checker_heartbeat
send_heartbeat ==
  /\ BeatDue
  /\ hb' = [hb EXCEPT !.expires[WorkerDb(hb.redis_db)] =
                         hb.now + HeartbeatTtlMinutes,
                      !.last_beat = hb.now]
  /\ UNCHANGED notHb

\* SIGTERM: cleanup_resources() deletes the key, the scheduler shuts down.
ShutdownWorker ==
  /\ hb.state = "running"
  /\ hb' = [hb EXCEPT !.state = "stopped",
                      !.expires[WorkerDb(hb.redis_db)] = 0]
  /\ UNCHANGED notHb

\* scripts/check_heartbeat.py NAME
CheckHeartbeat ==
  /\ hb' = [hb EXCEPT !.check =
              [exit |-> IF check_heartbeat(hb.expires, CheckDb(hb.redis_db),
                                           hb.now)
                        THEN 0 ELSE 1,
               alive |-> hb.state = "running" /\ hb.last_beat >= 0]]
  /\ UNCHANGED notHb

HbNext ==
  \/ StartWorker
  \/ HbTick
  \/ send_heartbeat
  \/ ShutdownWorker
  \/ CheckHeartbeat

HbSpec == HbInit /\ [][HbNext]_vars

\* C20 (as stated): while a scheduler (checker) process is running with the
\* key-value store configured, it rewrites its heartbeat key every minute
\* (every 5 minutes) with a 16-minute TTL, so from its first beat until it
\* shuts down the key the heartbeat check looks for never expires and the
\* check exits with status 0.
C20_HeartbeatAlive ==
  /\ (hb.state = "running" /\ hb.last_beat >= 0) =>
       /\ hb.now - hb.last_beat <= BeatEvery[hb.name]
       /\ check_heartbeat(hb.expires, CheckDb(hb.redis_db), hb.now)
  /\ (hb.check.exit # -1 /\ hb.check.alive) => hb.check.exit = 0

-----------------------------------------------------------------------------
(* Payment gate: exceptions *)

\* C30 (as stated): for every assistant message with a non-empty tool_calls
\* list and a configured payer, the post-model hook returns a state update
\* without raising, including when none of the called tool names resolves to
\* a registered skill.
C30_GateNeverRaises == \A r \in Requests : req[r].pc # "raised"

-----------------------------------------------------------------------------
(* Fee decomposition: signs *)

\* C26 (as stated): in the fee decomposition of any event with non-negative
\* draws (Gf, Gr, Gp) summing to G and fee amounts whose sum is at most G,
\* every per-class fee component is >= 0 and the platform, dev and agent
\* components of a class together never exceed that class's draw, so
\* base_free, base_reward and base_permanent are all >= 0.
C26_ComponentsNonNegative ==
  fstage = "committed" =>
    /\ \A x \in { rec.fee_platform_free_amount, rec.fee_platform_reward_amount,
                  rec.fee_platform_permanent_amount,
                  rec.fee_dev_free_amount, rec.fee_dev_reward_amount,
                  rec.fee_dev_permanent_amount,
                  rec.fee_agent_free_amount, rec.fee_agent_reward_amount,
                  rec.fee_agent_permanent_amount } : x >= 0
    /\ rec.fee_platform_free_amount + rec.fee_dev_free_amount
         + rec.fee_agent_free_amount <= rec.free_amount
    /\ rec.fee_platform_reward_amount + rec.fee_dev_reward_amount
         + rec.fee_agent_reward_amount <= rec.reward_amount
    /\ rec.fee_platform_permanent_amount + rec.fee_dev_permanent_amount
         + rec.fee_agent_permanent_amount <= rec.permanent_amount
    /\ rec.base_free_amount >= 0
    /\ rec.base_reward_amount >= 0
    /\ rec.base_permanent_amount >= 0

-----------------------------------------------------------------------------
(* The account-balance audit while the ledger is written                   *)
(* (app/admin/account_checking.py: check_account_balance_consistency,      *)
(* run_all_checks).                                                        *)

\* `bal` holds the committed account and transaction tables with their
\* timestamps, the ledger writes in flight (one per locked account row), the
\* audit run with what it has read so far, and the messages posted to Slack.

MaxWrites == 2
BalAccounts == {"a", "b"}
\* By how much the seeded transaction row of account a falls short of the
\* stored credits.
BalSeeds == {-1, 0, 1}
WriteAmount == 10000

\* The five checks run_all_checks runs after the account-balance check, with
\* the statuses each may return.
OtherChecks ==
  {"transaction_balance", "orphaned_transactions", "orphaned_events",
   "total_credit_balance", "transaction_total_balance"}
OtherResults ==
  { [c \in OtherChecks |-> <<TRUE>>],
    [c \in OtherChecks |-> IF c = "transaction_balance" THEN << >>
                           ELSE <<TRUE>>],
    [c \in OtherChecks |-> IF c = "orphaned_events" THEN <<FALSE>>
                           ELSE <<TRUE>>],
    [c \in OtherChecks |-> IF c = "transaction_balance" THEN <<TRUE, FALSE>>
                           ELSE <<TRUE>>] }

NoWrite == [open |-> FALSE]

\* account.free_credits + account.reward_credits + account.credits
total_balance(account) ==
  account.free_credits + account.reward_credits + account.credits

\* The cut-off of the audit's transaction query taken strictly.
TxBeforeSnapshotStrict(tx, max_updated_at) == tx.created_at < max_updated_at

\* AND created_at <= :max_updated_at
TxBeforeSnapshot(tx, max_updated_at) == tx.created_at <= max_updated_at

\* SUM(CASE WHEN credit_debit = :direction THEN change_amount ELSE 0 END)
\* over the account's transactions within the cut-off.
TxSum(T, account_id, direction, max_updated_at) ==
  LET rows == {t \in T : /\ t.account_id = account_id
                         /\ t.credit_debit = direction
                         /\ TxBeforeSnapshot(t, max_updated_at)}
  IN  SetSum([t \in rows |-> t.change_amount], rows)

\* Credits less debits over every committed transaction of the account.
CommittedSum(T, account_id) ==
  LET rows == {t \in T : t.account_id = account_id}
  IN  SetSum([t \in rows |-> Sign(t) * t.change_amount], rows)

\* max([account.updated_at for account in accounts])
MaxUpdatedAt(accts) ==
  CHOOSE u \in {accts[a].updated_at : a \in DOMAIN accts} :
    \A a \in DOMAIN accts : accts[a].updated_at <= u

\* The message prefix that pings the channel, sent on every run.
NotifyAlways(all_passed) == "<!channel> "

\* notify = "" if all_passed else "<!channel> "
Notify(all_passed) == IF all_passed THEN "" ELSE "<!channel> "

\* The statuses of one check's result list that are False.
FailedCount(check_results) ==
  Cardinality({i \in 1..Len(check_results) : ~check_results[i]})

IdleAudit ==
  [pc |-> "idle", accounts |-> << >>, max_updated_at |-> 0, todo |-> {},
   commits_at_read |-> 0, results |-> {}]

notBal ==
  <<feeVars, tableVars, reqVars, auditVars, migVars, refundVars, schedVars,
    frontVars, rebuild, autocfg, fixer, pager>>

\* Account a was recharged with 5.0000 at time 1, account b was refilled with
\* 1.0000 free credits at time 2; the recharge's transaction row may be off
\* by one unit (the seeded inconsistency).
BalInit ==
  /\ \E d \in BalSeeds :
       bal = [now |-> 3, seed |-> d, commits |-> 0, writes |-> 0,
              accounts |->
                [a \in BalAccounts |->
                   IF a = "a"
                   THEN [free_credits |-> 0, reward_credits |-> 0,
                         credits |-> 50000, updated_at |-> 1]
                   ELSE [free_credits |-> 10000, reward_credits |-> 0,
                         credits |-> 0, updated_at |-> 2]],
              txs |-> { [id |-> 1, account_id |-> "a",
                         credit_debit |-> "credit",
                         change_amount |-> 50000 - d, created_at |-> 1],
                        [id |-> 2, account_id |-> "b",
                         credit_debit |-> "credit", change_amount |-> 10000,
                         created_at |-> 2] },
              write |-> [a \in BalAccounts |-> NoWrite],
              audit |-> IdleAudit,
              slack |-> << >>]
  /\ FeeIdle /\ TablesIdle /\ ReqIdle /\ AuditIdle /\ MigIdle /\ RefundIdle
  /\ SchedIdle /\ FrontIdle
  /\ rebuild = << >> /\ autocfg = << >> /\ fixer = << >> /\ pager = << >>

\* A ledger operation on one account opens its database transaction, locks
\* the account row and stages the new balance and the transaction row, which
\* carry the time of this step.
LedgerWriteBegin(a, direction) ==
  /\ bal.writes < MaxWrites
  /\ ~bal.write[a].open
  /\ direction = "debit" => bal.accounts[a].credits >= WriteAmount
  /\ bal' = [bal EXCEPT
       !.now = @ + 1,
       !.writes = @ + 1,
       !.write[a] =
         [open |-> TRUE,
          account |-> [bal.accounts[a] EXCEPT
                         !.credits = IF direction = "credit"
                                     THEN @ + WriteAmount
                                     ELSE @ - WriteAmount,
                         !.updated_at = bal.now],
          tx |-> [id |-> bal.writes + 3, account_id |-> a,
                  credit_debit |-> direction, change_amount |-> WriteAmount,
                  created_at |-> bal.now]]]
  /\ UNCHANGED notBal

\* The operation commits: balance and transaction row become visible
\* together and the row lock is released.
LedgerWriteCommit(a) ==
  /\ bal.write[a].open
  /\ bal' = [bal EXCEPT
       !.accounts[a] = bal.write[a].account,
       !.txs = @ \cup {bal.write[a].tx},
       !.commits = @ + 1,
       !.write[a] = NoWrite]
  /\ UNCHANGED notBal

\* check_account_balance_consistency, first query: all accounts, and the
\* maximum of their updated_at.
AuditReadAccounts ==
  /\ bal.audit.pc = "idle"
  /\ bal' = [bal EXCEPT !.audit =
       [pc |-> "accounts", accounts |-> bal.accounts,
        max_updated_at |-> MaxUpdatedAt(bal.accounts),
        todo |-> BalAccounts, commits_at_read |-> bal.commits,
        results |-> {}]]
  /\ UNCHANGED notBal

\* check_account_balance_consistency, loop body: the transaction query of
\* the next account and its result.  `quiet` and `committed_sum` record what
\* the tables held when the query ran.
AuditQueryAccount ==
  /\ bal.audit.pc = "accounts"
  /\ bal.audit.todo # {}
  /\ \E a \in bal.audit.todo :
     LET account == bal.audit.accounts[a]
         credits == TxSum(bal.txs, a, "credit", bal.audit.max_updated_at)
         debits == TxSum(bal.txs, a, "debit", bal.audit.max_updated_at)
         expected_balance == credits - debits
         is_consistent == total_balance(account) = expected_balance
         result ==
           [check_type |-> "account_total_balance",
            status |-> is_consistent,
            account_id |-> a,
            current_total_balance |-> total_balance(account),
            expected_balance |-> expected_balance,
            difference |-> total_balance(account) - expected_balance,
            quiet |-> bal.commits = bal.audit.commits_at_read,
            committed_sum |-> CommittedSum(bal.txs, a)]
     IN  bal' = [bal EXCEPT !.audit.results = @ \cup {result},
                            !.audit.todo = @ \ {a}]
  /\ UNCHANGED notBal

\* run_all_checks after the account-balance check: the other five checks
\* return, the failures are counted and one summary is sent to Slack.
RunAllChecksSummary ==
  /\ bal.audit.pc = "accounts"
  /\ bal.audit.todo = {}
  /\ \E other \in OtherResults :
       LET account_failed ==
             Cardinality({r \in bal.audit.results : ~r.status})
           failed_count ==
             account_failed
               + SetSum([c \in OtherChecks |-> FailedCount(other[c])],
                        OtherChecks)
           all_passed ==
             /\ account_failed = 0
             /\ \A c \in OtherChecks : FailedCount(other[c]) = 0
       IN  bal' = [bal EXCEPT
             !.audit.pc = "done",
             !.slack = Append(@,
               [notify |-> Notify(all_passed),
                message |-> "Account Checking Results",
                failed_count |-> failed_count,
                other |-> other])]
  /\ UNCHANGED notBal

BalNext ==
  \/ \E a \in BalAccounts, direction \in {"credit", "debit"} :
       LedgerWriteBegin(a, direction)
  \/ \E a \in BalAccounts : LedgerWriteCommit(a)
  \/ AuditReadAccounts
  \/ AuditQueryAccount
  \/ RunAllChecksSummary

BalSpec == BalInit /\ [][BalNext]_vars


AuditFinished == bal # << >> /\ bal.audit.pc = "done"

AuditResultsOf(a) == {r \in bal.audit.results : r.account_id = a}

\* C21: the account-balance audit emits one account_total_balance result per
\* account; on an audit that no commit interleaves with, status is true
\* exactly when the stored free + reward + permanent credits equal credits
\* less debits of the account's transactions, and difference is stored less
\* expected.
C21_OneResultPerAccount ==
  bal # << >> =>
    /\ bal.audit.pc = "done" =>
         \A a \in BalAccounts : Cardinality(AuditResultsOf(a)) = 1
    /\ \A r \in bal.audit.results :
         /\ r.check_type = "account_total_balance"
         /\ r.quiet =>
              LET stored == total_balance(bal.audit.accounts[r.account_id])
              IN  /\ r.status <=> (stored = r.committed_sum)
                  /\ r.difference = stored - r.committed_sum

\* Stored 5.0000 against transactions summing to 4.9999: status false,
\* difference 0.0001.
C21_Witness ==
  /\ AuditFinished
  /\ \E r \in bal.audit.results :
       /\ r.account_id = "a" /\ r.quiet
       /\ r.current_total_balance = 50000 /\ r.expected_balance = 49999
       /\ ~r.status /\ r.difference = 1
  /\ \E r \in bal.audit.results : r.account_id = "b" /\ r.quiet /\ r.status

PingFlag == "<!channel> "

\* C22: an audit run posts exactly one summary to Slack, and the summary
\* carries the channel ping exactly when some check result of the run has
\* status false.
C22_PingIffFailure ==
  bal # << >> =>
    /\ bal.audit.pc # "done" => Len(bal.slack) = 0
    /\ bal.audit.pc = "done" =>
         /\ Len(bal.slack) = 1
         /\ (bal.slack[1].notify = PingFlag) <=>
              \/ \E r \in bal.audit.results : ~r.status
              \/ \E c \in OtherChecks :
                   \E i \in 1..Len(bal.slack[1].other[c]) :
                     ~bal.slack[1].other[c][i]

\* A run whose account results all pass but whose event check fails pings.
C22_Witness ==
  /\ AuditFinished
  /\ Len(bal.slack) = 1
  /\ bal.slack[1].notify = PingFlag
  /\ \A r \in bal.audit.results : r.status
  /\ bal.slack[1].other["orphaned_events"] = <<FALSE>>

\* C25 (as stated): on a ledger whose committed states all satisfy
\* balance = sum of transaction deltas, the audit reports status false for
\* no account, however ledger writes interleave with its queries.
C25_NoFalseAlarmUnderWrites ==
  (bal # << >> /\ bal.seed = 0) => \A r \in bal.audit.results : r.status


-----------------------------------------------------------------------------
(* Rebuilding account balances from the transactions                       *)
(* (scripts/fix_credit_accounts_from_transactions.py).                     *)

\* `rebuild` holds the committed account and transaction tables, the ledger
\* writes in flight, and the script: the accounts still to process, the
\* values it has read, and what process_single_account returned.

MaxRebuildWrites == 2
RebuildAccountIds == <<"a", "b">>
RebuildTolerance == 1
RebuildAmount == 10000
RebuildSeeds == {"consistent", "shifted", "off"}
CreditFields == {"free", "permanent"}

Credits(f, r, p) ==
  [free_credits |-> f, reward_credits |-> r, credits |-> p]

RebuildTx(id, a, direction, field) ==
  [id |-> id, account_id |-> a, credit_debit |-> direction,
   free_amount |-> IF field = "free" THEN RebuildAmount ELSE 0,
   reward_amount |-> 0,
   permanent_amount |-> IF field = "permanent" THEN RebuildAmount ELSE 0]

\* The SELECT of calculate_credits_from_transactions: per credit type, the
\* credit amounts less the debit amounts of the account's transactions.
calculate_credits_from_transactions(T, account_id) ==
  LET rows == {t \in T : t.account_id = account_id}
  IN  Credits(SetSum([t \in rows |-> Sign(t) * t.free_amount], rows),
              SetSum([t \in rows |-> Sign(t) * t.reward_amount], rows),
              SetSum([t \in rows |-> Sign(t) * t.permanent_amount], rows))

CreditsTotal(c) == c.free_credits + c.reward_credits + c.credits

\* abs(current_total - calc_total) > Decimal("0.0001")
TotalsMismatch(current, calc) ==
  Abs(CreditsTotal(current) - CreditsTotal(calc)) > RebuildTolerance

\* The ledger's write of one transaction to the account row.
ApplyRebuildTx(account, tx) ==
  Credits(account.free_credits + Sign(tx) * tx.free_amount,
          account.reward_credits + Sign(tx) * tx.reward_amount,
          account.credits + Sign(tx) * tx.permanent_amount)

notRebuild ==
  <<feeVars, tableVars, reqVars, auditVars, migVars, refundVars, schedVars,
    frontVars, bal, autocfg, fixer, pager>>

RebuildInit ==
  /\ \E sd \in RebuildSeeds, dry_run \in BOOLEAN :
       rebuild =
         [seed |-> sd, dry_run |-> dry_run, writes |-> 0,
          accounts |->
            [a |-> CASE sd = "consistent" -> Credits(10000, 0, 10000)
                     [] sd = "shifted" -> Credits(20000, 0, 0)
                     [] sd = "off" -> Credits(10000, 0, 10002),
             b |-> Credits(0, 0, 10000)],
          txs |-> { RebuildTx(1, "a", "credit", "free"),
                    RebuildTx(2, "a", "credit", "permanent"),
                    RebuildTx(3, "b", "credit", "permanent") },
          write |-> [a |-> << >>, b |-> << >>],
          pc |-> "next", i |-> 1, current |-> Credits(0, 0, 0),
          returned |-> << >>, overwrote |-> FALSE]
  /\ FeeIdle /\ TablesIdle /\ ReqIdle /\ AuditIdle /\ MigIdle /\ RefundIdle
  /\ SchedIdle /\ FrontIdle
  /\ bal = << >> /\ autocfg = << >> /\ fixer = << >> /\ pager = << >>

\* A debit or credit on one account opens its transaction and takes the row:
\* it cannot start while the script holds the table locks.
RebuildWriteBegin(a, direction, field) ==
  /\ rebuild.writes < MaxRebuildWrites
  /\ rebuild.write[a] = << >>
  /\ LET tx == RebuildTx(rebuild.writes + 4, a, direction, field)
         after == ApplyRebuildTx(rebuild.accounts[a], tx)
     IN  /\ after.free_credits >= 0 /\ after.credits >= 0
         /\ rebuild' = [rebuild EXCEPT !.writes = @ + 1,
                                       !.write[a] = <<tx>>]
  /\ UNCHANGED notRebuild

\* The debit or credit commits its balance and its transaction row together.
RebuildWriteCommit(a) ==
  /\ rebuild.write[a] # << >>
  /\ rebuild' = [rebuild EXCEPT
       !.accounts[a] = ApplyRebuildTx(@, rebuild.write[a][1]),
       !.txs = @ \cup {rebuild.write[a][1]},
       !.write[a] = << >>]
  /\ UNCHANGED notRebuild

\* process_single_account, first statement: the stored values are read in a
\* new session, before any lock is taken.
get_current_account_credits ==
  /\ rebuild.pc = "next"
  /\ rebuild.i <= Len(RebuildAccountIds)
  /\ rebuild' = [rebuild EXCEPT
       !.pc = "read",
       !.current = rebuild.accounts[RebuildAccountIds[rebuild.i]]]
  /\ UNCHANGED notRebuild

\* process_single_account, the rest: LOCK TABLE credit_accounts IN EXCLUSIVE
\* MODE and credit_transactions IN SHARE MODE wait for the writes in flight;
\* under the locks the sums are computed and compared with the values read
\* earlier, and the account is overwritten when the values differ, the totals
\* agree and the run is not a dry run.  The session ends and releases the
\* locks.  main stops at the first mismatch unless it is a dry run.
process_single_account ==
  /\ rebuild.pc = "read"
  /\ \A a \in DOMAIN rebuild.write : rebuild.write[a] = << >>
  /\ LET account_id == RebuildAccountIds[rebuild.i]
         current == rebuild.current
         calc == calculate_credits_from_transactions(rebuild.txs, account_id)
         mismatch == TotalsMismatch(current, calc)
         values_changed == current # calc
         update == ~mismatch /\ values_changed /\ ~rebuild.dry_run
         result == [account_id |-> account_id,
                    success |-> ~mismatch,
                    changed |-> ~mismatch /\ values_changed,
                    current |-> current, calc |-> calc]
     IN  rebuild' = [rebuild EXCEPT
           !.accounts[account_id] = IF update THEN calc ELSE @,
           !.overwrote = @ \/ (update /\ rebuild.accounts[account_id] # calc),
           !.returned = Append(@, result),
           !.pc = IF mismatch /\ ~rebuild.dry_run THEN "stopped" ELSE "next",
           !.i = @ + 1]
  /\ UNCHANGED notRebuild

RebuildNext ==
  \/ \E i \in 1..Len(RebuildAccountIds), direction \in {"credit", "debit"},
        field \in CreditFields :
       RebuildWriteBegin(RebuildAccountIds[i], direction, field)
  \/ \E i \in 1..Len(RebuildAccountIds) :
       RebuildWriteCommit(RebuildAccountIds[i])
  \/ get_current_account_credits
  \/ process_single_account

RebuildSpec == RebuildInit /\ [][RebuildNext]_vars

\* C23 (as stated): on a ledger whose stored balances equal the transaction
\* history, the rebuild reports no mismatch for any account and changes no
\* stored balance, also while debits and credits run concurrently.
C23_NoMismatchOnConsistentLedger ==
  (rebuild # << >> /\ rebuild.seed = "consistent") =>
    /\ \A k \in 1..Len(rebuild.returned) : rebuild.returned[k].success
    /\ ~rebuild.overwrote


-----------------------------------------------------------------------------
(* Autonomous tasks in generated and validated agent configurations        *)
(* (app/admin/generator/autonomous_generator.py, validation.py).           *)

\* `autocfg` holds one agent schema on its way to acceptance: where it came
\* from, its owner, fee percentage and autonomous tasks, and the
\* ValidationResult once validate_agent_create has run.

MinAutonomousMinutes == 5
MaxFeePercentage == 100
RequestedMinutes == {0, 1, 4, 5, 6}

\* Optional schedule fields as the language model or a caller may give them.
MinutesValues == {<< >>} \cup {<<m>> : m \in RequestedMinutes}
CronValues == {<< >>, <<"">>, <<"*/10 * * * *">>}
ScheduleData == [minutes : MinutesValues, cron : CronValues]

TaskLists ==
  {<< >>} \cup {<<t>> : t \in ScheduleData}
          \cup {<<t, u>> : t \in ScheduleData,
                           u \in [minutes : {<< >>, <<4>>, <<5>>},
                                  cron : {<< >>, <<"*/10 * * * *">>}]}

\* Python truth of an optional integer and of an optional string.
TruthyInt(x) == x # << >> /\ x[1] # 0
TruthyStr(x) == x # << >> /\ x[1] # ""

Max(a, b) == IF a >= b THEN a ELSE b

\* The requested interval taken as it is.
MinutesAsRequested(m) == m

\* max(5, int(config_data["minutes"]))
EnforceMinimumMinutes(m) == Max(MinAutonomousMinutes, m)

\* generate_autonomous_configuration from the parsed model answer on: the
\* list of tasks of the schema (empty when the function returns None).
generate_autonomous_configuration(has_autonomous, config_data) ==
  IF ~has_autonomous THEN << >>
  ELSE IF TruthyInt(config_data.minutes)
    THEN << [minutes |-> <<EnforceMinimumMinutes(config_data.minutes[1])>>,
             cron |-> << >>] >>
  ELSE IF TruthyStr(config_data.cron)
    THEN << [minutes |-> << >>, cron |-> config_data.cron] >>
  ELSE << >>

\* Agent.validate_autonomous_schedule: the error it raises, if any.
validate_autonomous_schedule(autonomous) ==
  LET bad(t) ==
        \/ t.minutes = << >> /\ t.cron = << >>
        \/ t.minutes # << >> /\ t.cron # << >>
        \/ t.minutes # << >> /\ t.minutes[1] < MinAutonomousMinutes
      first == CHOOSE i \in 1..Len(autonomous) :
                 bad(autonomous[i])
                   /\ \A j \in 1..(i - 1) : ~bad(autonomous[j])
  IN  IF \A i \in 1..Len(autonomous) : ~bad(autonomous[i]) THEN << >>
      ELSE LET t == autonomous[first]
           IN  IF t.minutes = << >> /\ t.cron = << >>
                 THEN <<"either minutes or cron must have a value">>
               ELSE IF t.minutes # << >> /\ t.cron # << >>
                 THEN <<"only one of minutes or cron can be set">>
               ELSE <<"The shortest execution interval is 5 minutes">>

\* validate_agent_create
validate_agent_create(agent_data, user_id) ==
  IF agent_data.owner = ""
    THEN [valid |-> FALSE, errors |-> <<"Owner is required">>]
  ELSE IF user_id # "" /\ agent_data.owner # user_id
    THEN [valid |-> FALSE, errors |-> <<"Owner does not match user ID">>]
  ELSE IF agent_data.fee_percentage # 0
          /\ agent_data.fee_percentage > MaxFeePercentage
    THEN [valid |-> FALSE, errors |-> <<"Fee percentage too high">>]
  ELSE LET e == validate_autonomous_schedule(agent_data.autonomous)
       IN  [valid |-> e = << >>, errors |-> e]

notAutocfg ==
  <<feeVars, tableVars, reqVars, auditVars, migVars, refundVars, schedVars,
    frontVars, bal, rebuild, fixer, pager>>

NoValidation == [valid |-> FALSE, errors |-> << >>]

AutocfgInit ==
  /\ autocfg = [pc |-> "prompt", origin |-> "none",
                agent_data |-> [owner |-> "", fee_percentage |-> 0,
                                autonomous |-> << >>],
                result |-> NoValidation]
  /\ FeeIdle /\ TablesIdle /\ ReqIdle /\ AuditIdle /\ MigIdle /\ RefundIdle
  /\ SchedIdle /\ FrontIdle
  /\ bal = << >> /\ rebuild = << >> /\ fixer = << >> /\ pager = << >>

\* generate_agent_schema: the autonomous tasks come from
\* generate_autonomous_configuration and are added to the schema.
GenerateAgentSchema ==
  /\ autocfg.pc = "prompt"
  /\ \E has_autonomous \in BOOLEAN, config_data \in ScheduleData,
        owner \in {"", "u1"} :
       autocfg' = [autocfg EXCEPT
         !.pc = "schema", !.origin = "generator",
         !.agent_data =
           [owner |-> owner, fee_percentage |-> 0,
            autonomous |->
              generate_autonomous_configuration(has_autonomous,
                                                config_data)]]
  /\ UNCHANGED notAutocfg

\* A schema written or edited outside the generator (the update path of the
\* assistant) reaches validation with whatever tasks it carries.
SubmitAgentSchema ==
  /\ autocfg.pc = "prompt"
  /\ \E autonomous \in TaskLists, owner \in {"", "u1"},
        fee_percentage \in {0, MaxFeePercentage + 1} :
       autocfg' = [autocfg EXCEPT
         !.pc = "schema", !.origin = "caller",
         !.agent_data = [owner |-> owner, fee_percentage |-> fee_percentage,
                         autonomous |-> autonomous]]
  /\ UNCHANGED notAutocfg

ValidateAgentCreate ==
  /\ autocfg.pc = "schema"
  /\ \E user_id \in {"", "u1", "u2"} :
       autocfg' = [autocfg EXCEPT
         !.pc = "validated",
         !.result = validate_agent_create(autocfg.agent_data, user_id)]
  /\ UNCHANGED notAutocfg

AutocfgNext ==
  \/ GenerateAgentSchema
  \/ SubmitAgentSchema
  \/ ValidateAgentCreate

AutocfgSpec == AutocfgInit /\ [][AutocfgNext]_vars

ScheduleOK(t) ==
  /\ ~(t.minutes # << >> /\ t.cron # << >>)
  /\ t.minutes # << >> => t.minutes[1] >= 5

\* C24: every autonomous task of a configuration that validation accepts,
\* and every task the generator puts into a schema, has at most one of
\* minutes and cron set and minutes >= 5 when set; a configuration with a
\* task whose minutes are below 5 is rejected by validation.
C24_AcceptedSchedules ==
  autocfg # << >> =>
    LET tasks == autocfg.agent_data.autonomous
    IN  /\ (autocfg.pc = "validated" /\ autocfg.result.valid) =>
             \A i \in 1..Len(tasks) : ScheduleOK(tasks[i])
        /\ autocfg.origin = "generator" =>
             \A i \in 1..Len(tasks) : ScheduleOK(tasks[i])
        /\ (/\ autocfg.pc = "validated"
            /\ \E i \in 1..Len(tasks) :
                 tasks[i].minutes # << >> /\ tasks[i].minutes[1] < 5) =>
             ~autocfg.result.valid

\* A schema of the right owner whose only task asks for 4 minutes is
\* rejected with the interval error.
C24_Witness ==
  /\ autocfg # << >>
  /\ autocfg.pc = "validated"
  /\ autocfg.agent_data.owner = "u1"
  /\ autocfg.agent_data.autonomous = <<[minutes |-> <<4>>, cron |-> << >>]>>
  /\ ~autocfg.result.valid
  /\ autocfg.result.errors = <<"The shortest execution interval is 5 minutes">>


-----------------------------------------------------------------------------
(* The credit-event consistency fixer                                      *)
(* (scripts/fix_credit_event_consistency.py).                              *)

\* `fixer` holds the credit_events table, the updates the running fixer has
\* executed in its session and not yet committed, its position in the
\* records it loaded, its counters, and the number of the run.

MaxEvents == 2
MaxFixerRuns == 2

\* check_record_consistency: the list of errors of one record (to_decimal
\* turns a NULL column into 0, which is how the rows here hold it).
check_record_errors(record) ==
  LET platform_sum == record.fee_platform_free_amount
                        + record.fee_platform_reward_amount
                        + record.fee_platform_permanent_amount
      dev_sum == record.fee_dev_free_amount + record.fee_dev_reward_amount
                   + record.fee_dev_permanent_amount
      agent_sum == record.fee_agent_free_amount
                     + record.fee_agent_reward_amount
                     + record.fee_agent_permanent_amount
      total_sum == record.free_amount + record.reward_amount
                     + record.permanent_amount
  IN  (IF platform_sum # record.fee_platform_amount
         THEN <<"Platform fee mismatch">> ELSE << >>)
      \o (IF dev_sum # record.fee_dev_amount
            THEN <<"Dev fee mismatch">> ELSE << >>)
      \o (IF agent_sum # record.fee_agent_amount
            THEN <<"Agent fee mismatch">> ELSE << >>)
      \o (IF total_sum # record.total_amount
            THEN <<"Total amount mismatch">> ELSE << >>)

\* return len(errors) == 0, errors
check_record_consistency(record) == Len(check_record_errors(record)) = 0

\* Rows the table may hold before the fixer runs: a fully decomposed event,
\* the same event with its detail columns never filled, the same event with
\* one detail column wrong, an event of 4.0000 written before the per-class
\* columns existed (they read as 0), and a free call.
FixerRows ==
  LET e == EventRow(10000, 20000, 10000, 4000, 0, 2000)
      d == calculate_detailed_amounts(e)
  IN  { d,
        e,
        [d EXCEPT !.fee_platform_free_amount = @ + 1],
        [EventRow(0, 0, 0, 4000, 0, 2000) EXCEPT !.total_amount = 40000],
        EventRow(0, 0, 0, 0, 0, 0) }

EventTables ==
  UNION {[1..n -> FixerRows] : n \in 1..MaxEvents}

notFixer ==
  <<feeVars, tableVars, reqVars, auditVars, migVars, refundVars, schedVars,
    frontVars, bal, rebuild, autocfg, pager>>

\* A fresh CreditEventConsistencyFixer that has loaded the records.
NewFixerRun(table, run) ==
  [table |-> table, run |-> run, records |-> table, i |-> 1,
   updates |-> table, pc |-> "checking",
   total_records |-> Len(table), inconsistent_records |-> 0,
   fixed_records |-> 0, fixed_ids |-> {}]

FixerInit ==
  /\ \E table \in EventTables : fixer = NewFixerRun(table, 1)
  /\ FeeIdle /\ TablesIdle /\ ReqIdle /\ AuditIdle /\ MigIdle /\ RefundIdle
  /\ SchedIdle /\ FrontIdle
  /\ bal = << >> /\ rebuild = << >> /\ autocfg = << >> /\ pager = << >>

\* find_and_fix_inconsistent_records, loop body: the record is checked and,
\* when inconsistent, counted and rewritten with the calculated amounts
\* (fix_inconsistent_record).
CheckAndFixRecord ==
  /\ fixer.pc = "checking"
  /\ fixer.i <= Len(fixer.records)
  /\ LET record == fixer.records[fixer.i]
         is_consistent == check_record_consistency(record)
     IN  fixer' = [fixer EXCEPT
           !.i = @ + 1,
           !.inconsistent_records = IF is_consistent THEN @ ELSE @ + 1,
           !.updates[fixer.i] =
             IF is_consistent THEN @ ELSE calculate_detailed_amounts(record),
           !.fixed_records = IF is_consistent THEN @ ELSE @ + 1,
           !.fixed_ids = IF is_consistent THEN @ ELSE @ \cup {fixer.i}]
  /\ UNCHANGED notFixer

\* await session.commit()
FixerCommit ==
  /\ fixer.pc = "checking"
  /\ fixer.i > Len(fixer.records)
  /\ fixer' = [fixer EXCEPT !.table = fixer.updates, !.pc = "committed"]
  /\ UNCHANGED notFixer

\* The script is run again over the same table.
FixerRunAgain ==
  /\ fixer.pc = "committed"
  /\ fixer.run < MaxFixerRuns
  /\ fixer' = NewFixerRun(fixer.table, fixer.run + 1)
  /\ UNCHANGED notFixer

FixerNext ==
  \/ CheckAndFixRecord
  \/ FixerCommit
  \/ FixerRunAgain

FixerSpec == FixerInit /\ [][FixerNext]_vars

\* C27 (as stated): every event the fixer counts as fixed passes
\* check_record_consistency once the update is committed, and a second run
\* over the same table finds no inconsistent record.
C27_FixedRecordsAreConsistent ==
  fixer # << >> =>
    /\ fixer.pc = "committed" =>
         \A id \in fixer.fixed_ids :
           check_record_consistency(fixer.table[id])
    /\ fixer.run > 1 => fixer.inconsistent_records = 0


-----------------------------------------------------------------------------
(* The shutdown sequence of the scheduler and checker processes            *)
(* (app/scheduler.py, app/checker.py: main), step by step on the event     *)
(* loop.                                                                   *)

\* Here `hb` holds the process's main coroutine (`main`: running at
\* shutdown_event.wait(), signalled, cleaning = inside clean_heartbeat
\* waiting for Redis, deleted = the DEL has been applied and its reply is on
\* the way, stopped = scheduler.shutdown() returned), the heartbeat job's
\* coroutine, the minute, and the heartbeat key with its expiry.

MaxShutdownMinutes == 5

\* The main coroutine is suspended at an await, so the event loop can run
\* the scheduler's wake-up and the job coroutines.
MainSuspended == hb.main \in {"running", "signalled", "cleaning", "deleted"}

notShutdown ==
  <<feeVars, tableVars, reqVars, auditVars, migVars, refundVars, schedVars,
    mem, chats, resp, sse, backVars>>

ShutdownInit ==
  /\ \E name \in Workers, redis_host \in BOOLEAN :
       hb = [name |-> name, redis_host |-> redis_host, main |-> "running",
             job |-> "idle", now |-> 0, last_fire |-> 0, key |-> << >>]
  /\ FeeIdle /\ TablesIdle /\ ReqIdle /\ AuditIdle /\ MigIdle /\ RefundIdle
  /\ SchedIdle /\ MemIdle /\ ApiIdle /\ SseIdle /\ BackIdle

\* The heartbeat job is registered only when redis_host is set; its cron
\* trigger has a fire time now that the running scheduler has not served.
HeartbeatJobDue ==
  /\ hb.redis_host
  /\ MainSuspended
  /\ hb.job = "idle"
  /\ hb.now > 0
  /\ hb.now % BeatEvery[hb.name] = 0
  /\ hb.last_fire < hb.now

MinutePasses ==
  /\ hb.now < MaxShutdownMinutes
  /\ ~HeartbeatJobDue
  /\ hb' = [hb EXCEPT !.now = @ + 1]
  /\ UNCHANGED notShutdown

\* The scheduler submits the due job: send_scheduler_heartbeat /
\* send_checker_heartbeat starts and waits in send_heartbeat for Redis.
HeartbeatJobStart ==
  /\ HeartbeatJobDue
  /\ hb' = [hb EXCEPT !.job = "started", !.last_fire = hb.now]
  /\ UNCHANGED notShutdown

\* The job's write reaches Redis: the key is set with its 16-minute expiry.
HeartbeatJobWrite ==
  /\ hb.job = "started"
  /\ MainSuspended
  /\ hb' = [hb EXCEPT !.job = "idle",
                      !.key = <<hb.now + HeartbeatTtlMinutes>>]
  /\ UNCHANGED notShutdown

\* SIGTERM or SIGINT: set_shutdown() sets the event.
ShutdownSignal ==
  /\ hb.main = "running"
  /\ hb' = [hb EXCEPT !.main = "signalled"]
  /\ UNCHANGED notShutdown

\* finally: await cleanup_resources().  With Redis configured the coroutine
\* sends the delete and waits; without it nothing is awaited and main goes
\* on to scheduler.shutdown() at once.
CleanupResources ==
  /\ hb.main = "signalled"
  /\ hb' = [hb EXCEPT
       !.main = IF hb.redis_host THEN "cleaning" ELSE "stopped",
       !.job = IF ~hb.redis_host /\ @ = "started" THEN "cancelled" ELSE @]
  /\ UNCHANGED notShutdown

\* clean_heartbeat: Redis applies the delete.
CleanHeartbeat ==
  /\ hb.main = "cleaning"
  /\ hb' = [hb EXCEPT !.main = "deleted", !.key = << >>]
  /\ UNCHANGED notShutdown

\* main resumes with the reply: if scheduler.running: scheduler.shutdown(),
\* which cancels the job coroutines still pending.
SchedulerShutdown ==
  /\ hb.main = "deleted"
  /\ hb' = [hb EXCEPT !.main = "stopped",
                      !.job = IF @ = "started" THEN "cancelled" ELSE @]
  /\ UNCHANGED notShutdown

ShutdownNext ==
  \/ MinutePasses
  \/ HeartbeatJobStart
  \/ HeartbeatJobWrite
  \/ ShutdownSignal
  \/ CleanupResources
  \/ CleanHeartbeat
  \/ SchedulerShutdown

ShutdownSpec == ShutdownInit /\ [][ShutdownNext]_vars

\* C28 (as stated): once the shutdown sequence of a scheduler or checker
\* process has completed, its heartbeat key is absent, for every
\* interleaving of a due heartbeat job with the sequence.
C28_NoKeyAfterShutdown ==
  (hb # << >> /\ hb.main = "stopped") => hb.key = << >>


-----------------------------------------------------------------------------
(* A client paging through a thread while messages are appended            *)
(* (app/entrypoints/agent_api.py: get_messages).                           *)

\* `pager` holds the client: the page size it asks for, the cursor of its
\* next call, the IDs it has received in order, the number of pages, and
\* the IDs the thread held at its first call.

PagerToken == [agent_id |-> "a1", is_public |-> FALSE]
PagerChat == "c1"

\* The response on the wire answers the client's current call and has not
\* been read by it yet.
PageUnread ==
  /\ pager.pc = "paging"
  /\ resp.op = "get_messages"
  /\ resp.cursor = pager.cursor

notPage ==
  <<feeVars, tableVars, reqVars, auditVars, migVars, refundVars, schedVars,
    mem, sse, hb, bal, rebuild, autocfg, fixer>>

PageInit ==
  /\ chats = ChatCreate(ChatCreate(EmptyDb, [agent_id |-> "a1",
                                             is_public |-> FALSE], ""),
                        [agent_id |-> "a1", is_public |-> FALSE], "u1")
  /\ resp = NoResponse
  /\ pager = [pc |-> "idle", limit |-> 0, cursor |-> 0, seen |-> << >>,
              pages |-> 0, first_call |-> {}]
  /\ FeeIdle /\ TablesIdle /\ ReqIdle /\ AuditIdle /\ MigIdle /\ RefundIdle
  /\ SchedIdle /\ MemIdle /\ SseIdle /\ HbIdle
  /\ bal = << >> /\ rebuild = << >> /\ autocfg = << >> /\ fixer = << >>

\* Messages are sent to the threads by their users, before, between and
\* after the client's calls.
PageAppend ==
  /\ ~PageUnread
  /\ \E t \in AgentTokens, u \in UserIds, c \in ChatIdSet,
        tail \in ReplyTails :
       send_message(t, u, c, tail)
  /\ UNCHANGED pager

\* The client decides to read the thread with pages of `limit` messages.
PageStart ==
  /\ pager.pc = "idle"
  /\ \E limit \in 1..MaxLimit :
       pager' = [pager EXCEPT !.pc = "paging", !.limit = limit]
  /\ UNCHANGED <<chats, resp, notPage>>

\* GET /chats/c1/messages: without cursor first, then with the next_cursor
\* of the page before.
PageCall ==
  /\ pager.pc = "paging"
  /\ ~PageUnread
  /\ get_messages(PagerToken, PagerChat, pager.cursor, pager.limit)
  /\ UNCHANGED pager

\* The client reads the page and keeps next_cursor, or stops when has_more
\* is false.
PageReceive ==
  /\ PageUnread
  /\ pager' = [pager EXCEPT
       !.seen = @ \o [k \in 1..Len(resp.data) |-> resp.data[k].id],
       !.pages = @ + 1,
       !.first_call =
         IF pager.pages = 0
         THEN {m.id : m \in ThreadRows(chats, PagerToken.agent_id, PagerChat)}
         ELSE @,
       !.cursor = IF resp.has_more THEN resp.next_cursor ELSE @,
       !.pc = IF resp.has_more THEN "paging" ELSE "done"]
  /\ UNCHANGED <<chats, resp, notPage>>

PageNext ==
  \/ PageAppend
  \/ PageStart
  \/ PageCall
  \/ PageReceive

PageSpec == PageInit /\ [][PageNext]_vars

\* C29: following next_cursor from a first call without cursor until
\* has_more is false returns the messages the thread held at the first call,
\* each exactly once and in strictly descending ID order, also when messages
\* are appended between the calls.
C29_PagingReturnsFirstCallThread ==
  pager # << >> =>
    /\ \A i, j \in 1..Len(pager.seen) :
         i < j => pager.seen[i] > pager.seen[j]
    /\ \A i \in 1..Len(pager.seen) : pager.seen[i] \in pager.first_call
    /\ pager.pc = "done" =>
         {pager.seen[i] : i \in 1..Len(pager.seen)} = pager.first_call

\* Two pages of one message each, with a message appended to the thread
\* after the first call.
C29_Witness ==
  /\ pager # << >>
  /\ pager.pc = "done"
  /\ pager.pages >= 2
  /\ Cardinality(pager.first_call) >= 2
  /\ \E m \in ThreadRows(chats, PagerToken.agent_id, PagerChat) :
       m.id \notin pager.first_call
=============================================================================
